---- MODULE Spec2Model ----
(***************************************************************************)
(* jobheist: the analysis pipeline of ats.ts (ats / atsStream) and its     *)
(* progress protocol.  One behaviour is one invocation of ats or           *)
(* atsStream together with its collaborators: the resume file and PDF      *)
(* decoder, the Firecrawl scrape call, the AI SDK streams (streamText,     *)
(* streamObject) and the single-shot generateObject request, the abort     *)
(* signal, and the un-awaited processStream task of narrative mode.        *)
(*                                                                         *)
(* Strings are sequences of characters, so that `text += chunk` is \o.     *)
(***************************************************************************)
EXTENDS Naturals, Integers, Sequences, FiniteSets, TLC

\* ------------------------------------------------------------------ bounds
\* Longest AI token stream (parts of fullStream) the collaborator produces.
MaxParts == 2
\* Longest partial-object stream the collaborator produces.
MaxPartials == 2

\* ------------------------------------------------------------- vocabulary
Absent == "absent"

Formats == {"markdown", "json", "xml"}
FormatOptions == Formats \cup {Absent}

Reasonings == {"none", "auto", "detailed"}
ReasoningOptions == Reasonings \cup {Absent}

\* const defaults: Required<Config>
defaults == [model |-> "gpt-5-mini", verbosity |-> "low", reasoning |-> "none"]

\* export type Phase
Phase == {"parsing", "parsed", "scraping", "scraped", "analyzing",
          "reasoning", "generating", "scoring", "complete"}

\* Payloads of a ProgressUpdate; `data` omitted is NoData.
NoData == [kind |-> "none"]
TextData(t) == [kind |-> "text", text |-> t]
ParsedData == [kind |-> "parsed"]
ScrapedData(job) == [kind |-> "scraped", title |-> job.title, company |-> job.company]
ScoreData(s) == [kind |-> "score", score |-> s]

\* Answer-text deltas and reasoning deltas the AI stream may carry.
TextDeltas == {<<"a">>, <<"b">>}
ReasoningDeltas == {<<"r">>}

\* The parts of streamText's fullStream: text-delta, reasoning-delta, and the
\* bookkeeping parts (start, finish-step, ...) that carry no text.
TextPart(t) == [type |-> "text-delta", text |-> t]
ReasoningPart(t) == [type |-> "reasoning-delta", text |-> t]
OtherPart == [type |-> "other", text |-> <<>>]
Parts == {TextPart(t) : t \in TextDeltas}
           \cup {ReasoningPart(t) : t \in ReasoningDeltas}
           \cup {OtherPart}

\* Score objects the AI collaborator may return (the numeric score stands for
\* the whole object) and the partial objects of partialObjectStream.
Scores == {40, 82}
NoScore == -1

\* An optional JavaScript value: None is undefined or null, Some(v) is v.
None == <<>>
Some(v) == <<v>>

\* The json object of a Firecrawl response, as scrape reads it: optional
\* strings jobTitle, companyName, jobDescription and optional arrays of strings
\* qualifications, responsibilities.  A qualification is a sequence of words.
JsonObjects ==
    [jobTitle         : {None, Some(""), Some("Engineer")},
     companyName      : {None, Some("Acme")},
     jobDescription   : {None, Some("We build things")},
     qualifications   : {None, Some(<<>>), Some(<< <<"Figma", "and", "React">> >>)},
     responsibilities : {None, Some(<<"Ship features">>)}]

\* `res.json || {}`: the object with every field missing.
EmptyJson ==
    [jobTitle |-> None, companyName |-> None, jobDescription |-> None,
     qualifications |-> None, responsibilities |-> None]

FullJson ==
    [jobTitle |-> Some("Engineer"), companyName |-> Some("Acme"),
     jobDescription |-> Some("We build things"),
     qualifications |-> Some(<< <<"Figma", "and", "React">> >>),
     responsibilities |-> Some(<<"Ship features">>)]

\* Everything firecrawl.scrape may resolve to: json, markdown and html each
\* present or not, markdown possibly the empty string.
AllScrapeResponses ==
    [json     : {None} \cup {Some(j) : j \in JsonObjects},
     markdown : {None, Some(""), Some("# Job")},
     html     : {None, Some("<p>Job</p>")}]

\* The responses the pipeline is run with: json and markdown each present or not.
ScrapeResponses ==
    {[json |-> j, markdown |-> m, html |-> None] :
        j \in {None, Some(FullJson)}, m \in {None, Some("# Job")}}

\* The jobUrl argument.
JobUrl == "https://jobs.example.com/posting"

\* Causes with which a collaborator call fails.
AiFailure == "ai-error"
Cancelled == "aborted"

\* Errors the call rejects with.
NoError == [kind |-> "none", cause |-> "none"]
PreconditionError == [kind |-> "precondition", cause |-> "FIRECRAWL_API_KEY required"]
IngestError == [kind |-> "ingest", cause |-> "unreadable"]
CollectionError == [kind |-> "collection", cause |-> "Failed to scrape job posting"]
\* An error of a stream, propagated unchanged.
StreamError(cause) == [kind |-> "stream", cause |-> cause]
\* throw new Error(`Failed to generate analysis: ${error.message}`)
AnalysisError(cause) == [kind |-> "analysis", cause |-> cause]

VARIABLES
    \* --- the call and its options (fixed at the call)
    api,            \* "ats" or "atsStream"
    format,         \* options.format, or Absent
    hasObserver,    \* options.onProgress is registered
    optKey,         \* options.firecrawlKey is supplied
    envKey,         \* process.env.FIRECRAWL_API_KEY is set
    openaiKey,      \* process.env.OPENAI_API_KEY is set
    cfgReasoning,   \* options.config.reasoning, or Absent
    cfgModel,       \* options.config.model, or Absent
    cfgVerbosity,   \* options.config.verbosity, or Absent
    optMaxAge,      \* options.maxAge, or None
    cli,            \* the CLI process that makes the call, or None
    renderArg,      \* a Score handed to render on its own, or None
    rendered,       \* what render returned for it, or None
    pdf,            \* a resume file handed to parse on its own, or None
    ingested,       \* what parse made of it, or None
    \* --- the invocation
    pc,             \* position of the async function body
    events,         \* ProgressUpdates delivered to onProgress, in order
    result,         \* `let result = ''` / `let text = ''`
    outcome,        \* "pending", "returned" or "rejected"
    returned,       \* the string the promise resolved to
    error,          \* the error the promise rejected with
    \* --- collaborators
    fileReads,      \* readFileSync calls
    scrapeCalls,    \* firecrawl.scrape calls
    streamReqs,     \* streamText / streamObject requests issued
    singleReqs,     \* generateObject requests issued
    stream,         \* parts produced so far by fullStream's source
    streamState,    \* "none", "open", "closed", "raised", "rejected"
    streamCause,    \* why the stream failed
    fwd,            \* processStream task: "none", "running", "done", "failed"
    fwdPos,         \* parts of fullStream consumed by processStream
    accPos,         \* parts consumed by the main loop (textStream / partials)
    streamObj,      \* the `object` promise's value once the stream closed
    singleObj,      \* the object generateObject returned
    singleCause,    \* why generateObject failed
    partials,       \* partial objects produced so far by partialObjectStream
    scrapeKey,      \* the apiKey handed to firecrawl.scrape
    scrapeRes,      \* what firecrawl.scrape resolved to, once it has
    job,            \* the Job scrape returned, once it has
    scrapeMaxAge,   \* the maxAge handed to firecrawl.scrape
    requests,       \* the AI requests issued, in order, with their settings
    first,          \* paired calls: what the first call met and how it ended
    \* --- abort signal
    aborted,        \* options.abortSignal has fired
    abortedAt       \* where the call was when it fired

vars == <<api, format, hasObserver, optKey, envKey, openaiKey, cfgReasoning,
          cfgModel, cfgVerbosity, optMaxAge, cli, renderArg, rendered,
          pdf, ingested,
          scrapeMaxAge, requests,
          pc, events, result, outcome, returned, error,
          fileReads, scrapeCalls, streamReqs, singleReqs,
          stream, streamState, streamCause, fwd, fwdPos, accPos,
          streamObj, singleObj, singleCause, partials, scrapeKey,
          scrapeRes, job, first, aborted, abortedAt>>

\* The arguments of the call, the environment and, for paired calls, the
\* record of the first call: nothing a step of the pipeline changes.
optionVars == <<api, format, hasObserver, optKey, envKey, openaiKey, cfgReasoning,
                cfgModel, cfgVerbosity, optMaxAge, cli, renderArg, rendered,
                pdf, ingested, first>>
collabVars == <<fileReads, scrapeCalls, scrapeKey, scrapeMaxAge, scrapeRes, job,
                streamReqs, singleReqs, requests>>
sourceVars == <<stream, partials, streamState, streamCause, streamObj>>
singleVars == <<singleObj, singleCause>>
callVars == <<pc, result, outcome, returned, error>>
abortVars == <<aborted, abortedAt>>

\* ------------------------------------------------------- pure functions

\* The resolution with the environment consulted first.
firecrawlKeyEnvFirst == IF envKey THEN "env" ELSE IF optKey THEN "option" ELSE Absent

\* options.firecrawlKey || process.env.FIRECRAWL_API_KEY
firecrawlKey == IF optKey THEN "option" ELSE IF envKey THEN "env" ELSE Absent

\* The format with 'json' as the default.
formatTypeJsonDefault == IF format = Absent THEN "json" ELSE format

\* options.format || 'markdown'
formatType == IF format = Absent THEN "markdown" ELSE format

\* options.config: a field the caller leaves out is Absent.
callerConfig ==
    [model |-> cfgModel, verbosity |-> cfgVerbosity, reasoning |-> cfgReasoning]

\* { ...base, ...over }: a new record; the fields over has win.
Spread(base, over) ==
    [f \in DOMAIN base |-> IF over[f] = Absent THEN base[f] ELSE over[f]]

\* The merge with a default of reasoning 'auto' (the CLI's former default).
configReasoningAuto ==
    Spread([defaults EXCEPT !.reasoning = "auto"], callerConfig)

\* The merge that keeps the default model whatever the caller asks for.
configDefaultModel ==
    [Spread(defaults, callerConfig) EXCEPT !.model = defaults.model]

\* { ...defaults, ...options.config }
config == Spread(defaults, callerConfig)

\* analyze's and analyzeStream's `const opts = { ...defaults, ...config }`
opts == Spread(defaults, config)


\* scrape's default cache age: maxAge: options?.maxAge ?? 3600000
DefaultMaxAge == 3600000

\* The values of options.maxAge: left out, 0 (a live fetch), one minute.
MaxAgeOptions == {None, Some(0), Some(60000)}

\* `options?.maxAge || 3600000`: 0 is falsy and gives the default.
MaxAgeOr(maxAge) ==
    IF maxAge = None \/ maxAge = Some(0) THEN DefaultMaxAge ELSE maxAge[1]

\* `options?.maxAge ?? 3600000`: only undefined and null give the default.
MaxAge(maxAge) == IF maxAge = None THEN DefaultMaxAge ELSE maxAge[1]

\* JavaScript falsiness of an optional string: undefined, null and ''.
Falsy(opt) == opt = None \/ opt = Some("")

\* `a || b` with the default forgotten: a itself, defined or not.
OrElseNothing(opt, alt) == opt

\* `a || b` on optional strings.
OrElse(opt, alt) == IF Falsy(opt) THEN alt ELSE opt

\* `a || []` on optional arrays: every array is truthy, the empty one too.
OrElseArray(opt, alt) == IF opt = None THEN alt ELSE opt

\* `if (!res.json || !res.markdown)`: the check with || in place of &&.
ScrapeFailsOnEither(res) == res.json = None \/ Falsy(res.markdown)

\* The check never made: every response is mapped to a Job.
ScrapeFailsNever(res) == FALSE

\* `if (!res.json && !res.markdown)`: scrape throws on such a response.
ScrapeFails(res) == res.json = None /\ Falsy(res.markdown)

\* const techKeywords
techKeywords == <<"React", "TypeScript", "Tailwind", "Figma">>

\* q.includes(tech), on a qualification given as its words
Includes(q, tech) == \E i \in 1..Len(q) : q[i] = tech

\* scrape's `technologies`: the tech keywords some qualification includes, in
\* the order of techKeywords; none when json has no qualifications.
Technologies(json) ==
    IF json.qualifications = None THEN <<>>
    ELSE LET quals == json.qualifications[1]
             Found(tech) == \E i \in 1..Len(quals) : Includes(quals[i], tech)
         IN  SelectSeq(techKeywords, Found)

\* scrape's mapping of the Firecrawl response to a Job; every field is an
\* optional value, None standing for undefined.
Job(res) ==
    LET json == IF res.json = None THEN EmptyJson ELSE res.json[1]
    IN  [text   |-> OrElse(res.markdown,
                       OrElse(json.jobDescription, OrElse(res.html, Some("")))),
         url    |-> Some(JobUrl),
         title  |-> OrElse(json.jobTitle, Some("Unknown Position")),
         company |-> OrElse(json.companyName, Some("Unknown Company")),
         requiredSkills       |-> OrElseArray(json.qualifications, Some(<<>>)),
         mustHaveRequirements |-> OrElseArray(json.qualifications, Some(<<>>)),
         niceToHave           |-> Some(<<>>),
         keyResponsibilities  |-> OrElseArray(json.responsibilities, Some(<<>>)),
         technologies         |-> Some(Technologies(json)),
         keywords             |-> Some(<<>>)]

\* render(score, type): the rendering names the serialization and the Score
\* it was computed from; an unknown type falls to the JSON default.
render(score, type) ==
    [format |-> IF type \in Formats THEN type ELSE "json", of |-> score]

\* options.onProgress?.(update): ats has no observer at all.
Emit(evs, phase, data) ==
    IF api = "atsStream" /\ hasObserver
    THEN Append(evs, [phase |-> phase, data |-> data])
    ELSE evs

\* Dispatch with the type test of the second branch lost: whatever is not
\* forwarded as reasoning is forwarded as generated text.
DispatchUntyped(part) ==
    IF part.type = "reasoning-delta" /\ config.reasoning # "none"
    THEN <<[phase |-> "reasoning", data |-> TextData(part.text)]>>
    ELSE <<[phase |-> "generating", data |-> TextData(part.text)]>>

\* processStream's dispatch of one part of fullStream
Dispatch(part) ==
    IF part.type = "reasoning-delta" /\ config.reasoning # "none"
    THEN <<[phase |-> "reasoning", data |-> TextData(part.text)]>>
    ELSE IF part.type = "text-delta"
    THEN <<[phase |-> "generating", data |-> TextData(part.text)]>>
    ELSE <<>>

\* Accumulated reading the text of every part, reasoning deltas included.
AccumulatedAll(text, part) == text \o part.text

\* `for await (const chunk of textStream) result += chunk`: textStream carries
\* the text of the text-delta parts only.
Accumulated(text, part) ==
    IF part.type = "text-delta" THEN text \o part.text ELSE text

\* Why a request to the AI collaborator fails now.
FailureCause(signalled) ==
    IF signalled /\ aborted THEN Cancelled
    ELSE IF ~openaiKey THEN "no-api-key"
    ELSE AiFailure

Reject(err) ==
    /\ outcome' = "rejected"
    /\ error' = err
    /\ pc' = "done"
    /\ UNCHANGED <<result, returned>>

Return(value) ==
    /\ outcome' = "returned"
    /\ returned' = value
    /\ pc' = "done"
    /\ UNCHANGED <<result, error>>

\* ------------------------------------------------------------------ Init
\* The state before the call has taken its first step.
Idle ==
    /\ pc = "start"
    /\ events = <<>>
    /\ result = <<>>
    /\ outcome = "pending"
    /\ returned = <<>>
    /\ error = NoError
    /\ fileReads = 0
    /\ scrapeCalls = 0
    /\ scrapeKey = Absent
    /\ scrapeRes = None
    /\ job = None
    /\ first = None
    /\ streamReqs = 0
    /\ singleReqs = 0
    /\ stream = <<>>
    /\ partials = <<>>
    /\ streamState = "none"
    /\ streamCause = "none"
    /\ fwd = "none"
    /\ fwdPos = 0
    /\ accPos = 0
    /\ streamObj = NoScore
    /\ singleObj = NoScore
    /\ singleCause = "none"
    /\ aborted = FALSE
    /\ abortedAt = "never"
    /\ scrapeMaxAge = None
    /\ requests = <<>>

Init ==
    /\ api \in {"ats", "atsStream"}
    /\ format \in FormatOptions
    /\ hasObserver \in BOOLEAN
    /\ (api = "ats" => ~hasObserver)
    /\ optKey \in BOOLEAN
    /\ envKey \in BOOLEAN
    /\ openaiKey \in BOOLEAN
    /\ cfgReasoning \in ReasoningOptions
    /\ cfgModel = Absent
    /\ cfgVerbosity = Absent
    /\ optMaxAge = None
    /\ cli = None
    /\ renderArg = None /\ rendered = None
    /\ pdf = None /\ ingested = None
    /\ Idle

\* --------------------------------------------------------------- actions

\* ats / atsStream up to `await parse(resumePath)`: the credential check, the
\* `parsing` event and parse's readFileSync.
Start ==
    /\ pc = "start"
    /\ IF firecrawlKey = Absent
       THEN /\ Reject(PreconditionError)
            /\ UNCHANGED <<events, fileReads>>
       ELSE /\ events' = Emit(events, "parsing", NoData)
            /\ fileReads' = fileReads + 1
            /\ pc' = "parse"
            /\ UNCHANGED <<result, outcome, returned, error>>
    /\ UNCHANGED <<optionVars, scrapeCalls, scrapeKey, scrapeMaxAge, scrapeRes, job,
                   streamReqs, singleReqs, requests, sourceVars, singleVars,
                   fwd, fwdPos, accPos, abortVars>>

\* The two events in the wrong order: `scraping` announced before `parsed`.
ScrapingThenParsed(evs) == Emit(Emit(evs, "scraping", NoData), "parsed", ParsedData)

\* atsStream between `await parse` and `await scrape`: `parsed`, then `scraping`.
ParsedThenScraping(evs) == Emit(Emit(evs, "parsed", ParsedData), "scraping", NoData)

\* parse resolves: `parsed`, `scraping`, and the call of firecrawl.scrape.
ParseReturn ==
    /\ pc = "parse"
    /\ events' = ParsedThenScraping(events)
    /\ scrapeCalls' = scrapeCalls + 1
    /\ scrapeKey' = firecrawlKey
    /\ scrapeMaxAge' = Some(MaxAge(optMaxAge))
    /\ pc' = "scrape"
    /\ UNCHANGED <<optionVars, result, outcome, returned, error, fileReads,
                   scrapeRes, job, streamReqs, singleReqs, requests, sourceVars,
                   singleVars, fwd, fwdPos, accPos, abortVars>>

\* parse throws with the collection already under way, as it would be had
\* the two been started together.
ParseThrowWhileScraping ==
    /\ pc = "parse"
    /\ Reject(IngestError)
    /\ events' = Emit(events, "scraping", NoData)
    /\ scrapeCalls' = scrapeCalls + 1
    /\ UNCHANGED <<optionVars, fileReads, scrapeKey, scrapeMaxAge, scrapeRes, job,
                   streamReqs, singleReqs, requests, sourceVars, singleVars,
                   fwd, fwdPos, accPos, abortVars>>

\* parse throws: the file cannot be read or the PDF cannot be decoded.
ParseThrow ==
    /\ pc = "parse"
    /\ Reject(IngestError)
    /\ UNCHANGED <<optionVars, events, collabVars, sourceVars, singleVars,
                   fwd, fwdPos, accPos, abortVars>>

Mode == IF formatType = "markdown" THEN "narrative" ELSE "structured"

\* resume.text, the text parse extracted.
ResumeText == "resume.text"

\* context(job): the job's part of both prompts.
context(j) ==
    [title |-> j.title, company |-> j.company, requiredSkills |-> j.requiredSkills,
     technologies |-> j.technologies, mustHaveRequirements |-> j.mustHaveRequirements,
     text |-> j.text]

\* reason(resume.text, job): the narrative prompt.
reason(resume, j) == [template |-> "reason", resume |-> resume, context |-> context(j)]

\* prompt(resume.text, job): the scoring prompt.
prompt(resume, j) == [template |-> "prompt", resume |-> resume, context |-> context(j)]

\* The streamText call of ats and atsStream: no maxRetries is given;
\* atsStream adds the smoothStream transform.
StreamTextRequest(j) ==
    [fn |-> "streamText", model |-> config.model, prompt |-> reason(ResumeText, j),
     maxRetries |-> None, abortSignal |-> "options.abortSignal",
     transform |-> IF api = "atsStream" THEN "smoothStream" ELSE Absent,
     reasoningSummary |-> IF config.reasoning = "none" THEN "auto" ELSE config.reasoning,
     textVerbosity |-> config.verbosity]

\* The streamObject call with the retry count left out.
StreamObjectRequestNoRetries(j) ==
    [fn |-> "streamObject", model |-> opts.model, prompt |-> prompt(ResumeText, j),
     maxRetries |-> None, abortSignal |-> "options.abortSignal", transform |-> Absent,
     reasoningSummary |-> Absent, textVerbosity |-> opts.verbosity]

\* analyzeStream's streamObject call.
StreamObjectRequest(j) ==
    [fn |-> "streamObject", model |-> opts.model, prompt |-> prompt(ResumeText, j),
     maxRetries |-> Some(2), abortSignal |-> "options.abortSignal", transform |-> Absent,
     reasoningSummary |-> Absent, textVerbosity |-> opts.verbosity]

\* The fallback calling analyze(resume, job) without the config: the defaults.
GenerateObjectRequestDefaults(j) ==
    [fn |-> "generateObject", model |-> defaults.model, prompt |-> prompt(ResumeText, j),
     maxRetries |-> Some(2), abortSignal |-> Absent, transform |-> Absent,
     reasoningSummary |-> Absent, textVerbosity |-> defaults.verbosity]

\* analyze's generateObject call: no abortSignal.
GenerateObjectRequest(j) ==
    [fn |-> "generateObject", model |-> opts.model, prompt |-> prompt(ResumeText, j),
     maxRetries |-> Some(2), abortSignal |-> Absent, transform |-> Absent,
     reasoningSummary |-> Absent, textVerbosity |-> opts.verbosity]

\* The marker with the modes exchanged: `analyzing` before structured
\* generation, a payload-less `scoring` before narrative generation.
AnalysisStartsExchanged(evs) ==
    IF Mode = "narrative" THEN Emit(evs, "scoring", NoData)
    ELSE Emit(evs, "analyzing", NoData)

\* atsStream's event right before the AI request: `analyzing` in narrative
\* mode, a `scoring` event without data in structured mode (ats: Emit drops it).
AnalysisStarts(evs) ==
    IF Mode = "narrative" THEN Emit(evs, "analyzing", NoData)
    ELSE Emit(evs, "scoring", NoData)

\* firecrawl.scrape resolves with res.  Neither json nor markdown: scrape
\* throws.  Otherwise `scraped` and, in the same synchronous run, the start of
\* the AI request: streamText plus processStream() in narrative mode,
\* analyzeStream's streamObject in structured mode.
ScrapeReturn(res) ==
    /\ pc = "scrape"
    /\ scrapeRes' = Some(res)
    /\ IF ScrapeFails(res)
       THEN /\ Reject(CollectionError)
            /\ UNCHANGED <<events, job, streamReqs, requests, streamState, fwd>>
       ELSE /\ job' = Some(Job(res))
            /\ events' = AnalysisStarts(Emit(events, "scraped", ScrapedData(Job(res))))
            /\ streamReqs' = streamReqs + 1
            /\ requests' = Append(requests,
                               IF Mode = "narrative" THEN StreamTextRequest(Job(res))
                               ELSE StreamObjectRequest(Job(res)))
            /\ streamState' = "open"
            /\ fwd' = IF Mode = "narrative" /\ api = "atsStream" /\ hasObserver
                      THEN "running" ELSE "none"
            /\ pc' = IF Mode = "narrative" THEN "accumulate"
                     ELSE IF api = "atsStream" THEN "partials"
                     ELSE "object"
            /\ UNCHANGED <<result, outcome, returned, error>>
    /\ UNCHANGED <<optionVars, fileReads, scrapeCalls, scrapeKey, scrapeMaxAge,
                   singleReqs, stream, partials, streamCause, streamObj, singleVars,
                   fwdPos, accPos, abortVars>>

\* firecrawl.scrape rejects (network or service error).
ScrapeThrow ==
    /\ pc = "scrape"
    /\ Reject([kind |-> "collection", cause |-> "scrape-error"])
    /\ UNCHANGED <<optionVars, events, collabVars, sourceVars, singleVars,
                   fwd, fwdPos, accPos, abortVars>>

\* ------------------------------------------------ the AI collaborator

\* The source of streamText's stream delivers one more part.  With the API key
\* missing or the signal fired the request yields nothing more.
StreamPart(part) ==
    /\ Mode = "narrative"
    /\ streamState = "open"
    /\ openaiKey /\ ~aborted
    /\ Len(stream) < MaxParts
    /\ stream' = Append(stream, part)
    /\ UNCHANGED <<optionVars, callVars, events, collabVars, partials, streamState,
                   streamCause, streamObj, singleVars, fwd, fwdPos, accPos, abortVars>>

\* streamObject's source delivers one more partial object.
StreamPartial(partial) ==
    /\ Mode = "structured"
    /\ streamState = "open"
    /\ openaiKey /\ ~aborted
    /\ Len(partials) < MaxPartials
    /\ partials' = Append(partials, partial)
    /\ UNCHANGED <<optionVars, callVars, events, collabVars, stream, streamState,
                   streamCause, streamObj, singleVars, fwd, fwdPos, accPos, abortVars>>

\* The stream ends normally; in structured mode the `object` promise then
\* holds the validated final Score.
StreamClose(final) ==
    /\ streamState = "open"
    /\ openaiKey /\ ~aborted
    /\ streamState' = "closed"
    /\ streamObj' = IF Mode = "structured" THEN final ELSE NoScore
    /\ UNCHANGED <<optionVars, callVars, events, collabVars, stream, partials,
                   streamCause, singleVars, fwd, fwdPos, accPos, abortVars>>

\* The stream fails: collaborator error, malformed output, missing API key, or
\* the abort signal.  how = "raised": iterating the stream raises (and in
\* structured mode the `object` promise rejects too).  how = "rejected"
\* (structured mode): the partial stream just ends and only `object` rejects.
StreamFail(how) ==
    /\ streamState = "open"
    /\ how \in (IF Mode = "structured" THEN {"raised", "rejected"} ELSE {"raised"})
    /\ streamState' = how
    /\ streamCause' = FailureCause(TRUE)
    /\ UNCHANGED <<optionVars, callVars, events, collabVars, stream, partials,
                   streamObj, singleVars, fwd, fwdPos, accPos, abortVars>>

\* options.abortSignal fires while the call is pending.
Abort ==
    /\ outcome = "pending"
    /\ pc # "start"
    /\ ~aborted
    /\ aborted' = TRUE
    /\ abortedAt' = IF pc = "scrape" THEN "collection"
                    ELSE IF streamState = "open" THEN "stream"
                    ELSE pc
    /\ UNCHANGED <<optionVars, callVars, events, collabVars, sourceVars, singleVars,
                   fwd, fwdPos, accPos>>

\* ------------------------------------------------------ narrative mode

\* One turn of `for await (const chunk of textStream) result += chunk`
\* (ats: `text += chunk`).
Accumulate ==
    /\ pc = "accumulate"
    /\ streamState # "raised"
    /\ accPos < Len(stream)
    /\ result' = Accumulated(result, stream[accPos + 1])
    /\ accPos' = accPos + 1
    /\ UNCHANGED <<optionVars, pc, outcome, returned, error, events, collabVars,
                   sourceVars, singleVars, fwd, fwdPos, abortVars>>

\* textStream is exhausted: `complete`, return result.
AccumulateEnd ==
    /\ pc = "accumulate"
    /\ streamState = "closed"
    /\ accPos = Len(stream)
    /\ events' = Emit(events, "complete", NoData)
    /\ Return(result)
    /\ UNCHANGED <<optionVars, collabVars, sourceVars, singleVars,
                   fwd, fwdPos, accPos, abortVars>>

\* Reading textStream raises and the text accumulated so far is returned.
AccumulateRaiseReturnsPartial ==
    /\ pc = "accumulate"
    /\ streamState = "raised"
    /\ Return(result)
    /\ UNCHANGED <<optionVars, events, collabVars, sourceVars, singleVars,
                   fwd, fwdPos, accPos, abortVars>>

\* Reading textStream raises: the call rejects with the stream's error.
AccumulateRaise ==
    /\ pc = "accumulate"
    /\ streamState = "raised"
    /\ Reject(StreamError(streamCause))
    /\ UNCHANGED <<optionVars, events, collabVars, sourceVars, singleVars,
                   fwd, fwdPos, accPos, abortVars>>

\* The turn of processStream's loop with an event equal to the one delivered
\* last suppressed.
ForwardDeduplicating ==
    /\ fwd = "running"
    /\ streamState # "raised"
    /\ fwdPos < Len(stream)
    /\ events' = IF <<events[Len(events)]>> = Dispatch(stream[fwdPos + 1])
                 THEN events
                 ELSE events \o Dispatch(stream[fwdPos + 1])
    /\ fwdPos' = fwdPos + 1
    /\ UNCHANGED <<optionVars, callVars, collabVars, sourceVars, singleVars,
                   fwd, accPos, abortVars>>

\* One turn of processStream's `for await (const part of fullStream)`.  The
\* task is started and never awaited: it runs on whatever the main loop does.
Forward ==
    /\ fwd = "running"
    /\ streamState # "raised"
    /\ fwdPos < Len(stream)
    /\ events' = events \o Dispatch(stream[fwdPos + 1])
    /\ fwdPos' = fwdPos + 1
    /\ UNCHANGED <<optionVars, callVars, collabVars, sourceVars, singleVars,
                   fwd, accPos, abortVars>>

\* fullStream is exhausted: processStream's promise resolves, unobserved.
ForwardEnd ==
    /\ fwd = "running"
    /\ streamState = "closed"
    /\ fwdPos = Len(stream)
    /\ fwd' = "done"
    /\ UNCHANGED <<optionVars, callVars, events, collabVars, sourceVars, singleVars,
                   fwdPos, accPos, abortVars>>

\* Reading fullStream raises: processStream's promise rejects, unobserved.
ForwardRaise ==
    /\ fwd = "running"
    /\ streamState = "raised"
    /\ fwd' = "failed"
    /\ UNCHANGED <<optionVars, callVars, events, collabVars, sourceVars, singleVars,
                   fwdPos, accPos, abortVars>>

\* A turn of processStream's loop in which options.onProgress throws on the
\* `reasoning` or `generating` event it is handed: the exception leaves the
\* loop and processStream's promise rejects, unobserved.
ForwardThrow ==
    /\ fwd = "running"
    /\ streamState # "raised"
    /\ fwdPos < Len(stream)
    /\ Dispatch(stream[fwdPos + 1]) # <<>>
    /\ events' = events \o Dispatch(stream[fwdPos + 1])
    /\ fwdPos' = fwdPos + 1
    /\ fwd' = "failed"
    /\ UNCHANGED <<optionVars, callVars, collabVars, sourceVars, singleVars,
                   accPos, abortVars>>

\* ----------------------------------------------------- structured mode

\* The tail with a `complete` event that carries nothing.
FinishWithoutScore(score) ==
    /\ events' = Emit(events, "complete", NoData)
    /\ Return(render(score, formatType))

\* atsStream's tail after analyzeStream resolved with score.
Finish(score) ==
    /\ events' = Emit(events, "complete", ScoreData(score))
    /\ Return(render(score, formatType))

\* The turn of the loop with the partial dropped from the event.
PartialWithoutData ==
    /\ pc = "partials"
    /\ streamState # "raised"
    /\ accPos < Len(partials)
    /\ events' = Emit(events, "scoring", NoData)
    /\ accPos' = accPos + 1
    /\ UNCHANGED <<optionVars, callVars, collabVars, sourceVars, singleVars,
                   fwd, fwdPos, abortVars>>

\* analyzeStream: one turn of `for await (const partial of partialObjectStream)`
\* calling atsStream's callback, which forwards to the observer if there is one.
Partial ==
    /\ pc = "partials"
    /\ streamState # "raised"
    /\ accPos < Len(partials)
    /\ events' = Emit(events, "scoring", ScoreData(partials[accPos + 1]))
    /\ accPos' = accPos + 1
    /\ UNCHANGED <<optionVars, callVars, collabVars, sourceVars, singleVars,
                   fwd, fwdPos, abortVars>>

\* The partial stream is exhausted: on to `await object`.
PartialsEnd ==
    /\ pc = "partials"
    /\ streamState \in {"closed", "rejected"}
    /\ accPos = Len(partials)
    /\ pc' = "object"
    /\ UNCHANGED <<optionVars, result, outcome, returned, error, events, collabVars,
                   sourceVars, singleVars, fwd, fwdPos, accPos, abortVars>>

\* The loop over the partials run only for a registered observer: without
\* one the raise is first met at `await object`.
PartialsRaiseIfObserved ==
    /\ pc = "partials"
    /\ streamState = "raised"
    /\ IF hasObserver
       THEN /\ Reject(StreamError(streamCause))
            /\ UNCHANGED result
       ELSE /\ pc' = "object"
            /\ UNCHANGED <<result, outcome, error>>
    /\ UNCHANGED <<optionVars, returned, events, collabVars, sourceVars, singleVars,
                   fwd, fwdPos, accPos, abortVars>>

\* The partial stream raises inside the loop, which no try block encloses:
\* analyzeStream rejects, and so does the call.
PartialsRaise ==
    /\ pc = "partials"
    /\ streamState = "raised"
    /\ Reject(StreamError(streamCause))
    /\ UNCHANGED <<optionVars, events, collabVars, sourceVars, singleVars,
                   fwd, fwdPos, accPos, abortVars>>

\* `return await object` resolves.
ObjectResolve ==
    /\ pc = "object"
    /\ streamState = "closed"
    /\ Finish(streamObj)
    /\ UNCHANGED <<optionVars, collabVars, sourceVars, singleVars,
                   fwd, fwdPos, accPos, abortVars>>

\* `await object` rejects: the catch block calls analyze(resume, job, config),
\* which issues generateObject (no abortSignal is handed on).
ObjectReject ==
    /\ pc = "object"
    /\ streamState \in {"raised", "rejected"}
    /\ singleReqs' = singleReqs + 1
    /\ requests' = Append(requests, GenerateObjectRequest(job[1]))
    /\ pc' = "fallback"
    /\ UNCHANGED <<optionVars, result, outcome, returned, error, events, fileReads,
                   scrapeCalls, scrapeKey, scrapeMaxAge, scrapeRes, job, streamReqs,
                   sourceVars, singleVars, fwd, fwdPos, accPos, abortVars>>

\* generateObject resolves with a validated Score.
SingleReturn(score) ==
    /\ pc = "fallback"
    /\ openaiKey
    /\ singleObj' = score
    /\ Finish(score)
    /\ UNCHANGED <<optionVars, collabVars, sourceVars, singleCause,
                   fwd, fwdPos, accPos, abortVars>>

\* generateObject fails: analyze rethrows, wrapping the cause's message.
SingleFail ==
    /\ pc = "fallback"
    /\ singleCause' = FailureCause(FALSE)
    /\ Reject(AnalysisError(singleCause'))
    /\ UNCHANGED <<optionVars, events, collabVars, sourceVars, singleObj,
                   fwd, fwdPos, accPos, abortVars>>

\* ------------------------------------------------------- specification
Next ==
    \/ Start
    \/ ParseReturn
    \/ ParseThrow
    \/ \E res \in ScrapeResponses : ScrapeReturn(res)
    \/ ScrapeThrow
    \/ \E part \in Parts : StreamPart(part)
    \/ \E partial \in Scores \cup {NoScore} : StreamPartial(partial)
    \/ \E final \in Scores : StreamClose(final)
    \/ \E how \in {"raised", "rejected"} : StreamFail(how)
    \/ Abort
    \/ Accumulate
    \/ AccumulateEnd
    \/ AccumulateRaise
    \/ Forward
    \/ ForwardEnd
    \/ ForwardRaise
    \/ Partial
    \/ PartialsEnd
    \/ PartialsRaise
    \/ ObjectResolve
    \/ ObjectReject
    \/ \E score \in Scores : SingleReturn(score)
    \/ SingleFail

Spec == Init /\ [][Next]_vars

\* The pipeline with an observer that may throw on a forwarded delta.
ThrowNext == Next \/ ForwardThrow

SpecThrow == Init /\ [][ThrowNext]_vars

\* ats and atsStream called one after the other with the same arguments and
\* the same collaborator behaviour.  The first call is ats, with any behaviour
\* of the collaborators and no abort signal; Switch records what it met; the
\* second call is atsStream, to which the collaborators respond as recorded.
Switch ==
    /\ first = None
    /\ api = "ats"
    /\ pc = "done"
    /\ first' = Some([outcome |-> outcome, returned |-> returned, events |-> events,
                      error |-> error, scrapeRes |-> scrapeRes, stream |-> stream,
                      partials |-> partials, streamState |-> streamState,
                      streamObj |-> streamObj, singleObj |-> singleObj,
                      singleCause |-> singleCause])
    /\ api' = "atsStream"
    /\ hasObserver' \in BOOLEAN
    /\ pc' = "start"
    /\ events' = <<>>
    /\ result' = <<>>
    /\ outcome' = "pending"
    /\ returned' = <<>>
    /\ error' = NoError
    /\ fileReads' = 0
    /\ scrapeCalls' = 0
    /\ scrapeKey' = Absent
    /\ scrapeRes' = None
    /\ job' = None
    /\ scrapeMaxAge' = None
    /\ requests' = <<>>
    /\ streamReqs' = 0
    /\ singleReqs' = 0
    /\ stream' = <<>>
    /\ partials' = <<>>
    /\ streamState' = "none"
    /\ streamCause' = "none"
    /\ fwd' = "none"
    /\ fwdPos' = 0
    /\ accPos' = 0
    /\ streamObj' = NoScore
    /\ singleObj' = NoScore
    /\ singleCause' = "none"
    /\ UNCHANGED <<format, optKey, envKey, openaiKey, cfgReasoning, cfgModel,
                   cfgVerbosity, optMaxAge, cli, renderArg, rendered, pdf, ingested,
                   abortVars>>

\* The AI stream of the second call has delivered all the first call's did.
Replayed == stream = first[1].stream /\ partials = first[1].partials

PairNext ==
    \/ Start
    \/ first = None /\ ParseReturn
    \/ first = None /\ ParseThrow
    \/ first = None /\ \E res \in ScrapeResponses : ScrapeReturn(res)
    \/ first = None /\ ScrapeThrow
    \/ first = None /\ \E part \in Parts : StreamPart(part)
    \/ first = None /\ \E partial \in Scores \cup {NoScore} : StreamPartial(partial)
    \/ first = None /\ \E final \in Scores : StreamClose(final)
    \/ first = None /\ \E how \in {"raised", "rejected"} : StreamFail(how)
    \/ first = None /\ \E score \in Scores : SingleReturn(score)
    \/ first = None /\ SingleFail
    \/ Switch
    \/ first # None /\ first[1].error # IngestError /\ ParseReturn
    \/ first # None /\ first[1].error = IngestError /\ ParseThrow
    \/ first # None /\ first[1].scrapeRes # None /\ ScrapeReturn(first[1].scrapeRes[1])
    \/ first # None /\ first[1].scrapeRes = None /\ ScrapeThrow
    \/ first # None /\ Len(stream) < Len(first[1].stream)
                    /\ StreamPart(first[1].stream[Len(stream) + 1])
    \/ first # None /\ Len(partials) < Len(first[1].partials)
                    /\ StreamPartial(first[1].partials[Len(partials) + 1])
    \/ first # None /\ Replayed /\ first[1].streamState = "closed"
                    /\ StreamClose(first[1].streamObj)
    \/ first # None /\ Replayed /\ first[1].streamState \in {"raised", "rejected"}
                    /\ StreamFail(first[1].streamState)
    \/ first # None /\ first[1].singleObj # NoScore /\ SingleReturn(first[1].singleObj)
    \/ first # None /\ first[1].singleCause # "none" /\ SingleFail
    \/ Accumulate
    \/ AccumulateEnd
    \/ AccumulateRaise
    \/ Forward
    \/ ForwardEnd
    \/ ForwardRaise
    \/ Partial
    \/ PartialsEnd
    \/ PartialsRaise
    \/ ObjectResolve
    \/ ObjectReject

\* The first call is ats.
PairInit == Init /\ api = "ats"

SpecPair == PairInit /\ [][PairNext]_vars

\* Two atsStream calls with the same arguments and the same collaborator
\* behaviour, the first without an observer, the second with one: the first
\* call has ended, and the second starts from the beginning.
Register ==
    /\ first = None
    /\ api = "atsStream"
    /\ ~hasObserver
    /\ pc = "done"
    /\ first' = Some([outcome |-> outcome, returned |-> returned, events |-> events,
                      error |-> error, scrapeRes |-> scrapeRes, stream |-> stream,
                      partials |-> partials, streamState |-> streamState,
                      streamObj |-> streamObj, singleObj |-> singleObj,
                      singleCause |-> singleCause, requests |-> requests,
                      scrapeKey |-> scrapeKey, scrapeMaxAge |-> scrapeMaxAge])
    /\ hasObserver' = TRUE
    /\ pc' = "start"
    /\ events' = <<>>
    /\ result' = <<>>
    /\ outcome' = "pending"
    /\ returned' = <<>>
    /\ error' = NoError
    /\ fileReads' = 0
    /\ scrapeCalls' = 0
    /\ scrapeKey' = Absent
    /\ scrapeRes' = None
    /\ job' = None
    /\ scrapeMaxAge' = None
    /\ requests' = <<>>
    /\ streamReqs' = 0
    /\ singleReqs' = 0
    /\ stream' = <<>>
    /\ partials' = <<>>
    /\ streamState' = "none"
    /\ streamCause' = "none"
    /\ fwd' = "none"
    /\ fwdPos' = 0
    /\ accPos' = 0
    /\ streamObj' = NoScore
    /\ singleObj' = NoScore
    /\ singleCause' = "none"
    /\ UNCHANGED <<api, format, optKey, envKey, openaiKey, cfgReasoning, cfgModel,
                   cfgVerbosity, optMaxAge, cli, renderArg, rendered, pdf, ingested,
                   abortVars>>

ObservedNext ==
    \/ Start
    \/ first = None /\ ParseReturn
    \/ first = None /\ ParseThrow
    \/ first = None /\ \E res \in ScrapeResponses : ScrapeReturn(res)
    \/ first = None /\ ScrapeThrow
    \/ first = None /\ \E part \in Parts : StreamPart(part)
    \/ first = None /\ \E partial \in Scores \cup {NoScore} : StreamPartial(partial)
    \/ first = None /\ \E final \in Scores : StreamClose(final)
    \/ first = None /\ \E how \in {"raised", "rejected"} : StreamFail(how)
    \/ first = None /\ \E score \in Scores : SingleReturn(score)
    \/ first = None /\ SingleFail
    \/ Register
    \/ first # None /\ first[1].error # IngestError /\ ParseReturn
    \/ first # None /\ first[1].error = IngestError /\ ParseThrow
    \/ first # None /\ first[1].scrapeRes # None /\ ScrapeReturn(first[1].scrapeRes[1])
    \/ first # None /\ first[1].scrapeRes = None /\ ScrapeThrow
    \/ first # None /\ Len(stream) < Len(first[1].stream)
                    /\ StreamPart(first[1].stream[Len(stream) + 1])
    \/ first # None /\ Len(partials) < Len(first[1].partials)
                    /\ StreamPartial(first[1].partials[Len(partials) + 1])
    \/ first # None /\ Replayed /\ first[1].streamState = "closed"
                    /\ StreamClose(first[1].streamObj)
    \/ first # None /\ Replayed /\ first[1].streamState \in {"raised", "rejected"}
                    /\ StreamFail(first[1].streamState)
    \/ first # None /\ first[1].singleObj # NoScore /\ SingleReturn(first[1].singleObj)
    \/ first # None /\ first[1].singleCause # "none" /\ SingleFail
    \/ Accumulate
    \/ AccumulateEnd
    \/ AccumulateRaise
    \/ Forward
    \/ ForwardEnd
    \/ ForwardRaise
    \/ Partial
    \/ PartialsEnd
    \/ PartialsRaise
    \/ ObjectResolve
    \/ ObjectReject

\* The first call is atsStream without an observer.
ObservedInit == Init /\ api = "atsStream" /\ ~hasObserver

SpecObserved == ObservedInit /\ [][ObservedNext]_vars

\* The values of options.config.model and options.config.verbosity.
ModelOptions == {Absent, "gpt-5"}
VerbosityOptions == {Absent, "high"}

\* Calls with every combination of config fields and maxAge, both credentials
\* set, against an AI collaborator that closes or fails its stream at once.
ConfigInit ==
    /\ api \in {"ats", "atsStream"}
    /\ format \in FormatOptions
    /\ hasObserver \in BOOLEAN
    /\ (api = "ats" => ~hasObserver)
    /\ optKey = FALSE
    /\ envKey = TRUE
    /\ openaiKey = TRUE
    /\ cfgReasoning \in ReasoningOptions
    /\ cfgModel \in ModelOptions
    /\ cfgVerbosity \in VerbosityOptions
    /\ optMaxAge \in MaxAgeOptions
    /\ cli = None
    /\ renderArg = None /\ rendered = None
    /\ pdf = None /\ ingested = None
    /\ Idle

ConfigNext ==
    \/ Start
    \/ ParseReturn
    \/ \E res \in ScrapeResponses : ScrapeReturn(res)
    \/ \E final \in Scores : StreamClose(final)
    \/ \E how \in {"raised", "rejected"} : StreamFail(how)
    \/ AccumulateEnd
    \/ AccumulateRaise
    \/ ForwardEnd
    \/ ForwardRaise
    \/ PartialsEnd
    \/ PartialsRaise
    \/ ObjectResolve
    \/ ObjectReject
    \/ \E score \in Scores : SingleReturn(score)
    \/ SingleFail

SpecConfig == ConfigInit /\ [][ConfigNext]_vars

\* ------------------------------------------------------------- the CLI

\* The two API keys, as names of environment variables.
KeyNames == {"FIRECRAWL_API_KEY", "OPENAI_API_KEY"}

\* The assignments of the keys one source can hold: each key is either not set
\* (Absent) or set, its value named after the source.
KeySets(source) == [KeyNames -> {Absent, source}]

\* dotenv with override: the file's values replace those already set.
PopulateOverriding(env, file) ==
    [k \in KeyNames |-> IF file[k] # Absent THEN file[k] ELSE env[k]]

\* dotenv's config(): a variable already in process.env keeps its value.
Populate(env, file) ==
    [k \in KeyNames |-> IF env[k] # Absent THEN env[k] ELSE file[k]]

\* `if (parsed['firecrawl-key']) process.env.FIRECRAWL_API_KEY = ...`, and the
\* same for --openai-key.
ApplyFlags(env, flags) ==
    [k \in KeyNames |-> IF flags[k] # Absent THEN flags[k] ELSE env[k]]

\* A CLI process at its start: its flags, the environment it inherits (shell),
\* the contents of ./.env and ~/.jobheistrc, and whether both positional
\* arguments are given.  frame, spun and logged are the spinner's frame, what
\* its last tick wrote, and what console.log wrote after the call.
CliStarts ==
    {[pc |-> "import", flags |-> f, shell |-> sh, dotenv |-> d, rc |-> r, env |-> sh,
      fresh |-> fr, format |-> fm, positional |-> po, frame |-> 0, spun |-> None,
      logged |-> None] :
        f \in KeySets("flag"), sh \in KeySets("shell"), d \in KeySets("dotenv"),
        r \in KeySets("rc"), fr \in BOOLEAN, fm \in Formats, po \in BOOLEAN}

CliInit ==
    /\ cli \in {Some(c) : c \in CliStarts}
    /\ api = "atsStream"
    /\ format = Absent
    /\ hasObserver = FALSE
    /\ optKey = FALSE
    /\ envKey = FALSE
    /\ openaiKey = FALSE
    /\ cfgReasoning = Absent
    /\ cfgModel = Absent
    /\ cfgVerbosity = Absent
    /\ optMaxAge = None
    /\ renderArg = None /\ rendered = None
    /\ pdf = None /\ ingested = None
    /\ Idle

\* import 'dotenv/config': ./.env is loaded into process.env.
LoadDotenv ==
    /\ cli # None /\ cli[1].pc = "import"
    /\ cli' = Some([cli[1] EXCEPT !.env = Populate(cli[1].env, cli[1].dotenv),
                                  !.pc = "rc"])
    /\ UNCHANGED <<api, format, hasObserver, optKey, envKey, openaiKey, cfgReasoning,
                   cfgModel, cfgVerbosity, optMaxAge, renderArg, rendered, pdf, ingested,
                   first,
                   callVars, events, collabVars, sourceVars, singleVars,
                   fwd, fwdPos, accPos, abortVars>>

\* config({ path: join(homedir(), '.jobheistrc') })
LoadRc ==
    /\ cli # None /\ cli[1].pc = "rc"
    /\ cli' = Some([cli[1] EXCEPT !.env = Populate(cli[1].env, cli[1].rc),
                                  !.pc = "main"])
    /\ UNCHANGED <<api, format, hasObserver, optKey, envKey, openaiKey, cfgReasoning,
                   cfgModel, cfgVerbosity, optMaxAge, renderArg, rendered, pdf, ingested,
                   first,
                   callVars, events, collabVars, sourceVars, singleVars,
                   fwd, fwdPos, accPos, abortVars>>

\* `!process.env.FIRECRAWL_API_KEY || !process.env.OPENAI_API_KEY`
KeysMissing(env) == \E k \in KeyNames : env[k] = Absent

\* main() up to the call of atsStream.  Without both positional arguments it
\* prints the usage line and calls args.showHelp(), which prints the help and,
\* by the library's default (exit.help), ends the process itself with
\* process.exit(), status 0: the process.exit(1) after it is not reached
\* ("usage").  Then the key flags are written to process.env; with a key
\* still unset the process exits with status 1 ("exit1"); otherwise atsStream is called with format, fresh, config and
\* onProgress (no firecrawlKey and no maxAge option).
Main ==
    /\ cli # None /\ cli[1].pc = "main"
    /\ LET env == ApplyFlags(cli[1].env, cli[1].flags)
       IN  IF ~cli[1].positional
           THEN /\ cli' = Some([cli[1] EXCEPT !.pc = "usage"])
                /\ UNCHANGED <<api, format, hasObserver, optKey, envKey, openaiKey,
                               cfgReasoning, cfgModel, cfgVerbosity, optMaxAge>>
           ELSE IF KeysMissing(env)
           THEN /\ cli' = Some([cli[1] EXCEPT !.env = env, !.pc = "exit1"])
                /\ UNCHANGED <<api, format, hasObserver, optKey, envKey, openaiKey,
                               cfgReasoning, cfgModel, cfgVerbosity, optMaxAge>>
           ELSE /\ cli' = Some([cli[1] EXCEPT !.env = env, !.pc = "called"])
                /\ api' = "atsStream"
                /\ format' = cli[1].format
                /\ hasObserver' = TRUE
                /\ optKey' = FALSE
                /\ envKey' = TRUE
                /\ openaiKey' = TRUE
                /\ cfgReasoning' = "none"
                /\ cfgModel' = "gpt-5-mini"
                /\ cfgVerbosity' = "low"
                /\ optMaxAge' = None
    /\ UNCHANGED <<renderArg, rendered, pdf, ingested, first, callVars, events, collabVars,
                   sourceVars, singleVars, fwd, fwdPos, accPos, abortVars>>

\* The CLI from process start to atsStream's call of firecrawl.scrape.
CliNext ==
    \/ LoadDotenv
    \/ LoadRc
    \/ Main
    \/ cli[1].pc = "called" /\ Start
    \/ cli[1].pc = "called" /\ ParseReturn
    \/ cli[1].pc = "called" /\ ParseThrow

SpecCli == CliInit /\ [][CliNext]_vars

\* ---------------------------------------------------- the CLI's run

\* main's progress tracker before the first event; stdout is what write()
\* has written, shown the last status line the handler put on stderr.
NewTracker ==
    [completed |-> {}, score |-> 0, isStreaming |-> FALSE, currentPhase |-> "",
     stdout |-> <<>>, shown |-> None]

\* buildStatus(current): the completed phases in the order parsed, scraped,
\* analyzed, the current phase with the spinner's frame unless it is complete,
\* generating or reasoning, and the score unless it is 0.
buildStatus(t, current, frame) ==
    [done |-> SelectSeq(<<"parsed", "scraped", "analyzed">>,
                        LAMBDA p : p \in t.completed),
     spinning |-> IF current \in {"complete", "generating", "reasoning"}
                  THEN None ELSE Some(<<frame, current>>),
     score |-> IF t.score # 0 THEN Some(t.score) ELSE None]

\* The marking that empties the set on `analyzing`.
MarkedClearing(completed, phase) ==
    IF phase = "analyzing" THEN {}
    ELSE completed \cup (IF phase \in {"parsed", "scraped"} THEN {phase} ELSE {})
                   \cup (IF phase \in {"reasoning", "generating", "scoring"}
                         THEN {"analyzed"} ELSE {})

\* "Mark phases as complete": parsed and scraped are added by their events,
\* analyzed is removed by `analyzing` and added by reasoning, generating and
\* scoring.
Marked(completed, phase) ==
    (completed \cup (IF phase \in {"parsed", "scraped"} THEN {phase} ELSE {})
               \cup (IF phase \in {"reasoning", "generating", "scoring"}
                     THEN {"analyzed"} ELSE {}))
        \ (IF phase = "analyzing" THEN {"analyzed"} ELSE {})

\* The onProgress handler main passes to atsStream, applied to one event.
\* The frame of a status line the handler writes is that of the moment; it
\* is written as 0.
onProgress(t, ev) ==
    LET scored == [t EXCEPT !.score = IF ev.data.kind = "score" /\ ev.data.score # NoScore
                                      THEN ev.data.score ELSE @,
                            !.completed = Marked(@, ev.phase)]
        shownNow ==
            IF ev.data.kind = "text"
            THEN IF ev.phase \in {"reasoning", "generating"}
                 THEN [scored EXCEPT
                         !.shown = IF scored.isStreaming THEN @
                                   ELSE Some([done |-> <<"parsed", "scraped", "analyzed">>,
                                              spinning |-> None, score |-> None]),
                         !.currentPhase = IF scored.isStreaming THEN @ ELSE "",
                         !.isStreaming = TRUE,
                         !.stdout = @ \o ev.data.text]
                 ELSE scored
            ELSE IF ev.phase # "complete"
            THEN [scored EXCEPT !.currentPhase = ev.phase,
                                !.shown = Some(buildStatus(scored, ev.phase, 0)),
                                !.isStreaming = FALSE]
            ELSE scored
    IN  IF ev.phase = "complete" THEN [shownNow EXCEPT !.currentPhase = ""] ELSE shownNow

\* The tracker after the events delivered so far: the handler runs inside
\* each delivery, one event after the other.
RECURSIVE Tracker(_)
Tracker(evs) ==
    IF evs = <<>> THEN NewTracker
    ELSE onProgress(Tracker(SubSeq(evs, 1, Len(evs) - 1)), evs[Len(evs)])

\* The spinner that stops only for streamed text.
SpinsUnlessStreaming(t) == ~t.isStreaming

\* `if (currentPhase && !isStreaming)`
Spins(t) == t.currentPhase # "" /\ ~t.isStreaming

\* The 80 ms timer fires while main awaits atsStream: the spinner moves to
\* its next frame (two frames stand for the ten) and writes the status line
\* if Spins.  The timer is set right before the call and cleared in the
\* finally block.
Tick ==
    /\ cli # None /\ cli[1].pc = "called"
    /\ cli' = Some([cli[1] EXCEPT
                      !.frame = 1 - @,
                      !.spun = IF Spins(Tracker(events))
                               THEN Some(buildStatus(Tracker(events),
                                                     Tracker(events).currentPhase,
                                                     1 - cli[1].frame))
                               ELSE None])
    /\ UNCHANGED <<api, format, hasObserver, optKey, envKey, openaiKey, cfgReasoning,
                   cfgModel, cfgVerbosity, optMaxAge, renderArg, rendered, pdf, ingested,
                   first, callVars, events, collabVars, sourceVars, singleVars,
                   fwd, fwdPos, accPos, abortVars>>

\* The result written whatever the format.
LoggedAlways(fmt, value) == Some(value)

\* `if (parsed.format !== 'markdown') console.log(result)`
Logged(fmt, value) == IF fmt # "markdown" THEN Some(value) ELSE None

\* atsStream has resolved: the result is written by console.log for json and xml, the timer
\* is cleared and main ends; the process ends with status 0 when nothing is
\* left to run.
Resolved ==
    /\ cli # None /\ cli[1].pc = "called"
    /\ pc = "done" /\ outcome = "returned"
    /\ cli' = Some([cli[1] EXCEPT !.pc = "exit0",
                                  !.logged = Logged(cli[1].format, returned)])
    /\ UNCHANGED <<api, format, hasObserver, optKey, envKey, openaiKey, cfgReasoning,
                   cfgModel, cfgVerbosity, optMaxAge, renderArg, rendered, pdf, ingested,
                   first, callVars, events, collabVars, sourceVars, singleVars,
                   fwd, fwdPos, accPos, abortVars>>

\* atsStream has rejected: the catch block reports the error and exits with
\* status 1.
Fail ==
    /\ cli # None /\ cli[1].pc = "called"
    /\ pc = "done" /\ outcome = "rejected"
    /\ cli' = Some([cli[1] EXCEPT !.pc = "exit1"])
    /\ UNCHANGED <<api, format, hasObserver, optKey, envKey, openaiKey, cfgReasoning,
                   cfgModel, cfgVerbosity, optMaxAge, renderArg, rendered, pdf, ingested,
                   first, callVars, events, collabVars, sourceVars, singleVars,
                   fwd, fwdPos, accPos, abortVars>>

\* A run with both arguments given and both keys in the environment.
RunInit ==
    /\ CliInit
    /\ cli[1].positional /\ ~cli[1].fresh
    /\ \A k \in KeyNames :
          /\ cli[1].flags[k] = Absent /\ cli[1].shell[k] # Absent
          /\ cli[1].dotenv[k] = Absent /\ cli[1].rc[k] = Absent

\* The process is alive: main awaits the call, or has ended with work left.
Alive == cli # None /\ cli[1].pc \in {"called", "exit0"}

\* The CLI from process start to its end, atsStream's whole run included.
RunNext ==
    \/ LoadDotenv
    \/ LoadRc
    \/ Main
    \/ Alive /\ Start
    \/ Alive /\ ParseReturn
    \/ Alive /\ ParseThrow
    \/ Alive /\ \E res \in ScrapeResponses : ScrapeReturn(res)
    \/ Alive /\ ScrapeThrow
    \/ Alive /\ \E part \in Parts : StreamPart(part)
    \/ Alive /\ \E partial \in Scores \cup {NoScore} : StreamPartial(partial)
    \/ Alive /\ \E final \in Scores : StreamClose(final)
    \/ Alive /\ \E how \in {"raised", "rejected"} : StreamFail(how)
    \/ Alive /\ Accumulate
    \/ Alive /\ AccumulateEnd
    \/ Alive /\ AccumulateRaise
    \/ Alive /\ Forward
    \/ Alive /\ ForwardEnd
    \/ Alive /\ ForwardRaise
    \/ Alive /\ Partial
    \/ Alive /\ PartialsEnd
    \/ Alive /\ PartialsRaise
    \/ Alive /\ ObjectResolve
    \/ Alive /\ ObjectReject
    \/ Alive /\ \E score \in Scores : SingleReturn(score)
    \/ Alive /\ SingleFail
    \/ Tick
    \/ Resolved
    \/ Fail

SpecRun == RunInit /\ [][RunNext]_vars

\* ---------------------------------------------------- render, markdown

\* Text is a sequence of lines and a line a sequence of string pieces; the
\* empty line is <<>>.  Numbers are written with ToString.  The pictographs
\* that open some headings and the verdicts are left out of the pieces, and
\* the arrow is written "->".

\* Entries of keywordAnalysis.strongMatches, underRepresented and notFound.
StrongMatch(kw) == [keyword |-> kw, jobFrequency |-> 4, resumeFrequency |-> 3]
UnderRepresented(kw) ==
    [keyword |-> kw, jobFrequency |-> 6, resumeFrequency |-> 1,
     suggestion |-> "mention it in the summary"]
NotFound(kw) ==
    [keyword |-> kw, jobFrequency |-> 3, impact |-> 5,
     suggestion |-> "add it to the skills list"]

\* The lists a keyword subsection is rendered from: empty, one entry, two
\* entries in either order.
KeywordLists(list) ==
    LET Entry(kw) == CASE list = "strongMatches" -> StrongMatch(kw)
                       [] list = "underRepresented" -> UnderRepresented(kw)
                       [] list = "notFound" -> NotFound(kw)
    IN  {<<>>, <<Entry("React")>>, <<Entry("React"), Entry("Figma")>>,
         <<Entry("Figma"), Entry("React")>>}

\* The Scores render is applied to: every integer score of ScoreSchema's range
\* with every combination of keyword lists; the other parts are fixed.
RenderScores ==
    {[score |-> n,
      keywordAnalysis |-> [strongMatches |-> sm, underRepresented |-> ur, notFound |-> nf],
      suggestions |->
          <<[type |-> "add", location |-> "Skills", current |-> None,
             suggested |-> "Figma", impact |-> 5, rationale |-> "named in the posting"],
            [type |-> "rewrite", location |-> "Summary", current |-> Some("Designer"),
             suggested |-> "Product designer", impact |-> 3,
             rationale |-> "matches the title"]>>,
      analysis |-> [topPriorities |-> <<"Design systems">>,
                    currentStrengths |-> <<"Prototyping">>,
                    opportunities |-> <<"Accessibility">>,
                    compatibility |-> [current |-> 60, potential |-> 75]],
      optimizations |-> op] :
        n \in 0..100,
        op \in {<<>>, <<"Add a skills section">>},
        sm \in KeywordLists("strongMatches"),
        ur \in KeywordLists("underRepresented"),
        nf \in KeywordLists("notFound")}

\* items.join('\n') and items.join('\n\n') over items that are blocks of
\* lines: with blank = TRUE an empty line goes between two items.
RECURSIVE Join(_, _)
Join(blocks, blank) ==
    IF blocks = <<>> THEN <<>>
    ELSE IF Len(blocks) = 1 THEN blocks[1]
    ELSE blocks[1] \o (IF blank THEN << <<>> >> ELSE <<>>) \o Join(Tail(blocks), blank)

\* The subsection that joins an empty list like any other: nothing at all.
SectionOrNothing(blocks, blank, fallback) == Join(blocks, blank)

\* `list.length > 0 ? list.map(...).join(sep) : fallback`, blocks being the
\* mapped list.
Section(blocks, blank, fallback) ==
    IF Len(blocks) > 0 THEN Join(blocks, blank) ELSE << <<fallback>> >>

StrongLine(k) ==
    << <<"**", k.keyword, "** - You: ", ToString(k.resumeFrequency), "x | Job: ",
         ToString(k.jobFrequency), "x">> >>

UnderLines(k) ==
    << <<"**", k.keyword, "** - You: ", ToString(k.resumeFrequency), "x | Job: ",
         ToString(k.jobFrequency), "x">>,
       <<"-> Consider: ", k.suggestion>> >>

NotFoundLines(k) ==
    << <<"**", k.keyword, "** - Job mentions: ", ToString(k.jobFrequency), "x">>,
       <<"-> Consider: ", k.suggestion>> >>

\* s.type.charAt(0).toUpperCase() + s.type.slice(1)
Capitalized(type) ==
    CASE type = "add" -> "Add" [] type = "enhance" -> "Enhance"
      [] type = "rewrite" -> "Rewrite"

\* One suggestion: header, current (left out when there is none), suggested,
\* impact, rationale.
SuggestionLines(sg, i) ==
    << <<"### Suggestion #", ToString(i), ": ", Capitalized(sg.type), " ", sg.location>> >>
    \o (IF Falsy(sg.current) THEN <<>>
        ELSE << <<"**Current:** \"", sg.current[1], "\"">> >>)
    \o << <<"**Consider:** \"", sg.suggested, "\"">>,
          <<"**Potential Impact:** +", ToString(sg.impact), " points">>,
          <<"**Rationale:** ", sg.rationale>> >>

\* items.map(x => `${prefix}${x}`)
Prefixed(prefix, items) == [i \in 1..Len(items) |-> << <<prefix, items[i]>> >>]

\* The four verdict lines.
Excellent == <<"**Excellent match** - Your resume strongly aligns with requirements">>
Good == <<"**Good match** - Solid foundation with room for optimization">>
Moderate ==
    <<"**Moderate match** - Consider the suggestions above to strengthen alignment">>
Limited ==
    <<"**Limited match** - Significant improvements recommended before applying">>

\* The verdict with strict comparisons: 80, 65 and 50 fall in the lower tier.
VerdictStrict(n) ==
    IF n > 80 THEN Excellent ELSE IF n > 65 THEN Good
    ELSE IF n > 50 THEN Moderate ELSE Limited

\* score.score >= 80 ? ... : score.score >= 65 ? ... : score.score >= 50 ? ... : ...
Verdict(n) ==
    IF n >= 80 THEN Excellent ELSE IF n >= 65 THEN Good
    ELSE IF n >= 50 THEN Moderate ELSE Limited

\* The headings of the three keyword subsections and of what follows them.
StrongHeading == <<"### Strong Matches">>
UnderHeading == <<"### Under-represented Keywords">>
NotFoundHeading == <<"### Keywords Not Found">>
OpportunitiesHeading == <<"## Optimization Opportunities">>

\* render(score, 'markdown'): the template, line by line.
renderMarkdown(score) ==
    LET ka == score.keywordAnalysis
        an == score.analysis
    IN  << <<"# ATS Compatibility Report: ", ToString(score.score), "/100">>, <<>>,
           <<"## Keyword Analysis">>, <<>>,
           StrongHeading >>
        \o Section([i \in 1..Len(ka.strongMatches) |-> StrongLine(ka.strongMatches[i])],
                   FALSE, "No strong keyword matches identified")
        \o << <<>>, UnderHeading >>
        \o Section([i \in 1..Len(ka.underRepresented) |->
                        UnderLines(ka.underRepresented[i])],
                   TRUE, "All present keywords are well-represented")
        \o << <<>>, NotFoundHeading >>
        \o Section([i \in 1..Len(ka.notFound) |-> NotFoundLines(ka.notFound[i])],
                   TRUE, "No critical keywords missing")
        \o << <<>>, OpportunitiesHeading, <<>> >>
        \o Join([i \in 1..Len(score.suggestions) |->
                    SuggestionLines(score.suggestions[i], i)], TRUE)
        \o << <<>>, <<"## Role Analysis">>, <<>>, <<"### Top Priorities">> >>
        \o Join(Prefixed("- ", an.topPriorities), FALSE)
        \o << <<>>, <<"### Your Strengths">> >>
        \o Join(Prefixed("- ", an.currentStrengths), FALSE)
        \o << <<>>, <<"### Opportunities">> >>
        \o Join(Prefixed("- ", an.opportunities), FALSE)
        \o << <<>>, <<"## Quick Optimizations">> >>
        \o Join(Prefixed("-> ", score.optimizations), FALSE)
        \o << <<>>, <<"## Compatibility Assessment">>,
              <<"**Current Match:** ", ToString(an.compatibility.current), "%">>,
              <<"**Potential Match:** ", ToString(an.compatibility.potential), "%">>,
              <<"**Possible Improvement:** +",
                ToString(an.compatibility.potential - an.compatibility.current), "%">>,
              <<>>,
              Verdict(score.score) >>

\* ---------------------------------------------------- render, json

\* A JavaScript value as a tree: numbers, strings, arrays, and objects as the
\* sequence of their own properties in insertion order.
Js(type, v) == [t |-> type, v |-> v]

\* The Score object itself, as ScoreSchema shapes it.  An optional `current`
\* that was not given is a property the object does not have.
ScoreObject(score) ==
    LET P(key, value) == [k |-> key, v |-> value]
        Num(n) == Js("number", n)
        Str(text) == Js("string", text)
        Arr(items) == Js("array", items)
        Obj(members) == Js("object", members)
        ka == score.keywordAnalysis
        an == score.analysis
        Strings(list) == Arr([i \in 1..Len(list) |-> Str(list[i])])
        Strong(e) == Obj(<<P("keyword", Str(e.keyword)),
                           P("jobFrequency", Num(e.jobFrequency)),
                           P("resumeFrequency", Num(e.resumeFrequency))>>)
        Under(e) == Obj(<<P("keyword", Str(e.keyword)),
                          P("jobFrequency", Num(e.jobFrequency)),
                          P("resumeFrequency", Num(e.resumeFrequency)),
                          P("suggestion", Str(e.suggestion))>>)
        Missing(e) == Obj(<<P("keyword", Str(e.keyword)),
                            P("jobFrequency", Num(e.jobFrequency)),
                            P("impact", Num(e.impact)),
                            P("suggestion", Str(e.suggestion))>>)
        Suggestion(e) ==
            Obj(<<P("type", Str(e.type)), P("location", Str(e.location))>>
                \o (IF e.current = None THEN <<>> ELSE <<P("current", Str(e.current[1]))>>)
                \o <<P("suggested", Str(e.suggested)), P("impact", Num(e.impact)),
                      P("rationale", Str(e.rationale))>>)
    IN  Obj(<<P("score", Num(score.score)),
              P("keywordAnalysis",
                Obj(<<P("strongMatches",
                        Arr([i \in 1..Len(ka.strongMatches) |-> Strong(ka.strongMatches[i])])),
                      P("underRepresented",
                        Arr([i \in 1..Len(ka.underRepresented) |->
                                Under(ka.underRepresented[i])])),
                      P("notFound",
                        Arr([i \in 1..Len(ka.notFound) |-> Missing(ka.notFound[i])]))>>)),
              P("suggestions",
                Arr([i \in 1..Len(score.suggestions) |-> Suggestion(score.suggestions[i])])),
              P("analysis",
                Obj(<<P("topPriorities", Strings(an.topPriorities)),
                      P("currentStrengths", Strings(an.currentStrengths)),
                      P("opportunities", Strings(an.opportunities)),
                      P("compatibility",
                        Obj(<<P("current", Num(an.compatibility.current)),
                              P("potential", Num(an.compatibility.potential))>>))>>)),
              P("optimizations", Strings(score.optimizations))>>)

\* JSON and XML text is a sequence of tokens; the white space that the indent
\* puts between them is not kept.  An XML token is the header, an opening,
\* closing or empty tag, or character data.
Token(kind, text) == [kind |-> kind, s |-> text]

\* The properties left out of the text together with the empty arrays.
SerializedNonEmpty(members) ==
    SelectSeq(members, LAMBDA m : m.v.t # "undefined" /\ m.v # Js("array", <<>>))

\* The properties of an object that JSON.stringify writes: all but those
\* whose value is undefined.
Serialized(members) == SelectSeq(members, LAMBDA m : m.v.t # "undefined")

\* JSON.stringify(value, null, 2)
JSONstringify(value) ==
    LET RECURSIVE Text(_), Items(_), Members(_)
        Text(x) ==
            CASE x.t = "number" -> <<Token("number", ToString(x.v))>>
              [] x.t = "string" -> <<Token("string", x.v)>>
              [] x.t = "array"  -> <<Token("punct", "[")>> \o Items(x.v) \o <<Token("punct", "]")>>
              [] x.t = "object" -> <<Token("punct", "{")>> \o Members(Serialized(x.v)) \o <<Token("punct", "}")>>
        Items(xs) ==
            IF xs = <<>> THEN <<>>
            ELSE Text(xs[1]) \o (IF Len(xs) > 1 THEN <<Token("punct", ",")>> ELSE <<>>)
                 \o Items(Tail(xs))
        Members(ms) ==
            IF ms = <<>> THEN <<>>
            ELSE <<Token("string", ms[1].k), Token("punct", ":")>> \o Text(ms[1].v)
                 \o (IF Len(ms) > 1 THEN <<Token("punct", ",")>> ELSE <<>>)
                 \o Members(Tail(ms))
    IN  Text(value)

\* JSON.parse(text): the value the text denotes.  A number token is read as
\* the number it writes.
JSONparse(text) ==
    LET NumberOf(digits) == CHOOSE n \in 0..100 : ToString(n) = digits
        After(ts, n) == SubSeq(ts, n + 1, Len(ts))
        RECURSIVE Value(_), Elements(_, _), Properties(_, _)
        Value(ts) ==
            CASE ts[1].kind = "number" ->
                    [value |-> Js("number", NumberOf(ts[1].s)), rest |-> After(ts, 1)]
              [] ts[1].kind = "string" ->
                    [value |-> Js("string", ts[1].s), rest |-> After(ts, 1)]
              [] ts[1] = Token("punct", "[") -> Elements(After(ts, 1), <<>>)
              [] ts[1] = Token("punct", "{") -> Properties(After(ts, 1), <<>>)
        Elements(ts, acc) ==
            IF ts[1] = Token("punct", "]") THEN [value |-> Js("array", acc), rest |-> After(ts, 1)]
            ELSE LET from == IF ts[1] = Token("punct", ",") THEN After(ts, 1) ELSE ts
                     item == Value(from)
                 IN  Elements(item.rest, Append(acc, item.value))
        Properties(ts, acc) ==
            IF ts[1] = Token("punct", "}") THEN [value |-> Js("object", acc), rest |-> After(ts, 1)]
            ELSE LET from == IF ts[1] = Token("punct", ",") THEN After(ts, 1) ELSE ts
                     item == Value(After(from, 2))
                 IN  Properties(item.rest,
                                Append(acc, [k |-> from[1].s, v |-> item.value]))
    IN  Value(text).value

\* ---------------------------------------------------- render, xml

\* The element that is left out when it has no content.
ElementOrNothing(key, content) ==
    IF content = <<>> THEN <<>>
    ELSE <<Token("open", key)>> \o content \o <<Token("close", key)>>

\* One property as an element: <key>content</key>, or <key/> without content.
Element(key, content) ==
    IF content = <<>> THEN <<Token("empty", key)>>
    ELSE <<Token("open", key)>> \o content \o <<Token("close", key)>>

\* toXML(value, { header: true, indent: '  ' }): a property becomes an
\* element, an array the contents of its items one after the other, a number
\* or string character data.
toXML(value) ==
    LET RECURSIVE Content(_), Each(_), Props(_)
        Content(x) ==
            CASE x.t = "number" -> <<Token("text", ToString(x.v))>>
              [] x.t = "string" -> IF x.v = "" THEN <<>> ELSE <<Token("text", x.v)>>
              [] x.t = "array"  -> Each(x.v)
              [] x.t = "object" -> Props(x.v)
        Each(xs) == IF xs = <<>> THEN <<>> ELSE Content(xs[1]) \o Each(Tail(xs))
        Props(ms) ==
            IF ms = <<>> THEN <<>>
            ELSE Element(ms[1].k, Content(ms[1].v)) \o Props(Tail(ms))
    IN  <<Token("header", "xml")>> \o Content(value)

\* render(score, type), the three cases of the switch.
renderText(score, type) ==
    CASE type = "json" -> JSONstringify(ScoreObject(score))
      [] type = "xml" -> toXML(Js("object", <<[k |-> "evaluation", v |-> ScoreObject(score)]>>))
      [] type = "markdown" -> renderMarkdown(score)

\* render applied on its own to one of RenderScores.
RenderInit ==
    /\ renderArg \in {Some(score) : score \in RenderScores}
    /\ rendered = None
    /\ pdf = None /\ ingested = None
    /\ api = "atsStream"
    /\ format \in Formats
    /\ hasObserver = FALSE
    /\ optKey = FALSE
    /\ envKey = TRUE
    /\ openaiKey = TRUE
    /\ cfgReasoning = Absent
    /\ cfgModel = Absent
    /\ cfgVerbosity = Absent
    /\ optMaxAge = None
    /\ cli = None
    /\ Idle

\* The call render(score, format).
Render ==
    /\ renderArg # None
    /\ rendered = None
    /\ rendered' = Some(renderText(renderArg[1], format))
    /\ UNCHANGED <<api, format, hasObserver, optKey, envKey, openaiKey, cfgReasoning,
                   cfgModel, cfgVerbosity, optMaxAge, cli, renderArg, pdf, ingested, first,
                   callVars, events, collabVars, sourceVars, singleVars,
                   fwd, fwdPos, accPos, abortVars>>

RenderNext == Render

SpecRender == RenderInit /\ [][RenderNext]_vars

\* ---------------------------------------------------- parse, on its own

\* Text is a sequence of symbols: a space, a line break, or a run of
\* characters taken whole (a word, an e-mail address, a phone number).  The
\* two patterns of parse match the runs listed here and nothing made of the
\* other symbols.
Space == " "
LineBreak == "\n"
EmailRuns == {"ada@example.com"}
PhoneRuns == {"555-123-4567"}

\* The strings of the text items of a page.
ItemStrings ==
    {<<>>, <<Space>>, <<"Ada">>, <<Space, "Ada", Space>>, <<"ada@example.com">>,
     <<"555-123-4567">>}

\* The files parse is given: one that cannot be read or decoded, and the
\* documents of up to MaxPages pages of up to two items.
MaxPages == 2
ResumeFiles ==
    LET Pages == UNION {[1..n -> ItemStrings] : n \in 0..2}
    IN  {[readable |-> FALSE, pages |-> <<>>]}
        \cup {[readable |-> TRUE, pages |-> ps] :
                ps \in UNION {[1..n -> Pages] : n \in 0..MaxPages}}

\* The string as it is.
untrimmed(str) == str

\* String.prototype.trim
RECURSIVE trim(_)
trim(str) ==
    IF str = <<>> THEN <<>>
    ELSE IF str[1] \in {Space, LineBreak} THEN trim(Tail(str))
    ELSE IF str[Len(str)] \in {Space, LineBreak} THEN trim(SubSeq(str, 1, Len(str) - 1))
    ELSE str

\* parse(path) for a document that could be read: the text of all pages, and
\* the three fields found in it.  A field that was not found is None.
parse(file) ==
    LET RECURSIVE JoinItems(_), PagesText(_), Split(_, _)
        \* content.items.map(item => item.str).join(' ')
        JoinItems(items) ==
            IF items = <<>> THEN <<>>
            ELSE items[1] \o (IF Len(items) > 1 THEN <<Space>> ELSE <<>>)
                 \o JoinItems(Tail(items))
        \* text += pageText + '\n'
        PagesText(pages) ==
            IF pages = <<>> THEN <<>>
            ELSE JoinItems(pages[1]) \o <<LineBreak>> \o PagesText(Tail(pages))
        \* text.split('\n')
        Split(str, line) ==
            IF str = <<>> THEN <<line>>
            ELSE IF str[1] = LineBreak THEN <<line>> \o Split(Tail(str), <<>>)
            ELSE Split(Tail(str), Append(line, str[1]))
        \* text.match(pattern)?.[0]
        Match(str, runs) ==
            IF \E i \in 1..Len(str) : str[i] \in runs
            THEN Some(str[CHOOSE i \in 1..Len(str) :
                            /\ str[i] \in runs
                            /\ \A j \in 1..(i - 1) : str[j] \notin runs])
            ELSE None
        text == PagesText(file.pages)
        lines == SelectSeq(Split(text, <<>>), LAMBDA line : Len(trim(line)) > 0)
    IN  [text |-> text,
         email |-> Match(text, EmailRuns),
         phone |-> Match(text, PhoneRuns),
         name |-> IF lines = <<>> THEN None ELSE Some(trim(lines[1]))]

IngestInit ==
    /\ pdf \in {Some(file) : file \in ResumeFiles}
    /\ ingested = None
    /\ renderArg = None /\ rendered = None
    /\ api = "atsStream"
    /\ format = "markdown"
    /\ hasObserver = FALSE
    /\ optKey = FALSE
    /\ envKey = TRUE
    /\ openaiKey = TRUE
    /\ cfgReasoning = Absent
    /\ cfgModel = Absent
    /\ cfgVerbosity = Absent
    /\ optMaxAge = None
    /\ cli = None
    /\ Idle

\* The call parse(path): it throws when the file cannot be read or decoded,
\* and returns a Resume otherwise.
Ingest ==
    /\ pdf # None
    /\ ingested = None
    /\ ingested' = Some(IF pdf[1].readable
                      THEN [returned |-> TRUE, value |-> Some(parse(pdf[1]))]
                      ELSE [returned |-> FALSE, value |-> None])
    /\ UNCHANGED <<api, format, hasObserver, optKey, envKey, openaiKey, cfgReasoning,
                   cfgModel, cfgVerbosity, optMaxAge, cli, renderArg, rendered, pdf,
                   first, callVars, events, collabVars, sourceVars, singleVars,
                   fwd, fwdPos, accPos, abortVars>>

SpecIngest == IngestInit /\ [][Ingest]_vars

\* The collection step alone, run on every response of AllScrapeResponses.
ScrapeNext ==
    \/ Start
    \/ ParseReturn
    \/ ParseThrow
    \/ \E res \in AllScrapeResponses : ScrapeReturn(res)
    \/ ScrapeThrow

SpecScrape == Init /\ [][ScrapeNext]_vars

\* ---------------------------------------------------- observed values

\* The phase names delivered so far, in delivery order.
PhasesOf(evs) == [i \in 1..Len(evs) |-> evs[i].phase]

\* Positions in the delivered events that carry the given phase.
At(phase) == {i \in 1..Len(events) : events[i].phase = phase}

RECURSIVE TextOf(_, _)
\* Concatenation, in delivery order, of data.text of the events of a phase.
TextOf(evs, phase) ==
    IF evs = <<>> THEN <<>>
    ELSE (IF Head(evs).phase = phase THEN Head(evs).data.text ELSE <<>>)
             \o TextOf(Tail(evs), phase)

RECURSIVE DeltasOf(_, _)
\* Concatenation, in arrival order, of the text of the parts of one type.
DeltasOf(parts, type) ==
    IF parts = <<>> THEN <<>>
    ELSE (IF Head(parts).type = type THEN Head(parts).text ELSE <<>>)
             \o DeltasOf(Tail(parts), type)

IsPrefix(s, t) == Len(s) <= Len(t) /\ SubSeq(t, 1, Len(s)) = s

Observed == api = "atsStream" /\ hasObserver

\* ------------------------------------------------------------- claims

\* C1: narrative mode of atsStream with an observer: once the call has returned,
\* the concatenation of the text of the `generating` events delivered so far is a
\* prefix of the returned string, and it is exactly the returned string when the
\* forwarding task has delivered its last event.
C1_GeneratingTextIsReturned ==
    (Observed /\ Mode = "narrative" /\ outcome = "returned")
        => /\ IsPrefix(TextOf(events, "generating"), returned)
           /\ (fwd = "done" => TextOf(events, "generating") = returned)

\* C1 witness: a two-delta answer was returned and fully forwarded, the main loop
\* having finished before the forwarding task did.
C1_Witness ==
    /\ Observed /\ Mode = "narrative" /\ outcome = "returned" /\ fwd = "done"
    /\ returned = <<"b", "a">>
    /\ events[Len(events)].phase = "generating"

\* C2: once `complete` has been delivered no further progress event is
\* delivered: a `complete` event is the last event of the invocation.
C2_NothingAfterComplete ==
    \A i \in 1..Len(events) : events[i].phase = "complete" => i = Len(events)

\* C3: structured mode, with both credentials present and no abort: a failed
\* streaming request is followed by exactly one single-shot request; no
\* invocation issues more than one request of either kind; and a failed
\* single-shot request rejects the call with an analysis error wrapping its
\* cause.
C3_FallbackExactlyOnce ==
    (openaiKey /\ ~aborted)
        => /\ streamReqs <= 1
           /\ singleReqs <= 1
           /\ (Mode = "structured" /\ outcome # "pending"
                  /\ streamState \in {"raised", "rejected"}) => singleReqs = 1
           /\ singleCause # "none"
                  => outcome = "rejected" /\ error = AnalysisError(singleCause)

\* C4: structured mode of atsStream with an observer, both credentials present
\* and no abort: when the partial stream raised while it was iterated, the
\* settled call has issued the single-shot request; if that succeeded, the last
\* event is `complete` carrying its Score and the call returned its rendering;
\* if it failed, the call rejected without `complete`.
C4_RaiseMidPartialFallsBack ==
    (Observed /\ Mode = "structured" /\ openaiKey /\ ~aborted
        /\ streamState = "raised" /\ outcome # "pending")
        => /\ singleReqs = 1
           /\ singleObj # NoScore
                 => /\ outcome = "returned"
                    /\ returned = render(singleObj, formatType)
                    /\ events[Len(events)] =
                          [phase |-> "complete", data |-> ScoreData(singleObj)]
           /\ singleObj = NoScore
                 => outcome = "rejected" /\ At("complete") = {}

\* C5: when the abort signal fired while the AI stream was in progress, no
\* `complete` event is delivered and the call does not return a string.
C5_AbortMidStreamCancels ==
    abortedAt = "stream" => At("complete") = {} /\ outcome # "returned"

\* C6: with both credentials present, when the abort signal fired while the
\* collection call was in progress, no `scraped` event and no AI request
\* follows, and the call does not return.
C6_AbortCancelsCollection ==
    (abortedAt = "collection" /\ openaiKey)
        => /\ At("scraped") = {}
           /\ streamReqs = 0 /\ singleReqs = 0
           /\ outcome # "returned"

\* C7: `parsing`, `parsed`, `scraping`, `scraped` are delivered at most once each
\* and in that order; no `analyzing`, `reasoning`, `generating` or `scoring`
\* event precedes `scraped`; `complete` is delivered at most once and only after
\* an `analyzing` or `scoring` event.
C7_LegalPhaseOrder ==
    /\ \A ph \in {"parsing", "parsed", "scraping", "scraped", "complete"} :
           Cardinality(At(ph)) <= 1
    /\ \A i \in At("parsed") : \E j \in At("parsing") : j < i
    /\ \A i \in At("scraping") : \E j \in At("parsed") : j < i
    /\ \A i \in At("scraped") : \E j \in At("scraping") : j < i
    /\ \A ph \in {"analyzing", "reasoning", "generating", "scoring"} :
           \A i \in At(ph) : \E j \in At("scraped") : j < i
    /\ \A i \in At("complete") :
           \E j \in At("analyzing") \cup At("scoring") : j < i

\* C7 witness: a full structured run and its events.
C7_Witness ==
    /\ Observed /\ outcome = "returned"
    /\ PhasesOf(events) = <<"parsing", "parsed", "scraping", "scraped",
                            "scoring", "scoring", "scoring", "complete">>

\* C8: narrative mode of ats and atsStream, observer or not: the returned string
\* is the concatenation in arrival order of the answer-text deltas of the AI
\* stream and holds no character of a reasoning delta.
C8_ReturnedIsAnswerText ==
    (Mode = "narrative" /\ outcome = "returned")
        => /\ returned = DeltasOf(stream, "text-delta")
           /\ \A i \in 1..Len(returned) :
                  \A d \in ReasoningDeltas : \A k \in 1..Len(d) : returned[i] # d[k]

\* C8 witness: ats returned the answer of a stream that carried a reasoning
\* delta before the answer delta.
C8_Witness ==
    /\ api = "ats" /\ Mode = "narrative" /\ outcome = "returned"
    /\ stream = <<ReasoningPart(<<"r">>), TextPart(<<"b">>)>>
    /\ returned = <<"b">>

\* C9: when the caller's config gives reasoning 'none' or gives no reasoning at
\* all, no `reasoning` event is delivered.
C9_NoReasoningEvents ==
    cfgReasoning \in {Absent, "none"} => At("reasoning") = {}

\* C9 witness: with no config, the forwarding task has gone through a stream
\* that carried a reasoning delta.
C9_Witness ==
    /\ Observed /\ cfgReasoning = Absent /\ fwd = "done"
    /\ \E i \in 1..Len(stream) : stream[i].type = "reasoning-delta"

\* C10: when the scraping credential or the AI credential is missing, the call
\* is rejected with a precondition error at its first step: no file read, no
\* collaborator call and no progress event has happened.
C10_MissingCredentialFailsFirst ==
    ((firecrawlKey = Absent \/ ~openaiKey) /\ pc # "start")
        => /\ outcome = "rejected" /\ error.kind = "precondition"
           /\ fileReads = 0 /\ scrapeCalls = 0
           /\ streamReqs = 0 /\ singleReqs = 0
           /\ events = <<>>

\* C11: the credential handed to firecrawl.scrape is the explicit option when
\* one is supplied and the environment value only when the option is absent.
C11_OptionKeyWins ==
    scrapeCalls > 0 => scrapeKey = (IF optKey THEN "option" ELSE "env")

\* C11 witness: both the option and the environment hold a key and the scrape
\* call has been made with the option's key.
C11_Witness ==
    /\ optKey /\ envKey /\ scrapeCalls = 1 /\ scrapeKey = "option"

\* C12: once firecrawl.scrape has resolved, collection has failed with the
\* collection error exactly when the response has neither json nor markdown;
\* otherwise a Job has been produced, whatever fields the json lacks.
C12_CollectionFailsIffNeither ==
    scrapeRes # None =>
        LET res == scrapeRes[1]
        IN  IF res.json = None /\ res.markdown \in {None, Some("")}
            THEN outcome = "rejected" /\ error = CollectionError /\ job = None
            ELSE outcome = "pending" /\ job # None /\ pc # "done"

\* C12 witness: a response with no markdown and a json object with every field
\* missing has been mapped to a Job.
C12_Witness ==
    /\ scrapeRes = Some([json |-> Some(EmptyJson), markdown |-> None, html |-> None])
    /\ job # None /\ outcome = "pending"

\* C13: when firecrawl.scrape resolves with json = null and markdown = null,
\* atsStream rejects, the observer has received exactly `parsing`, `parsed`,
\* `scraping`, and no AI request has been issued.
C13_NullResponseRejectsBeforeScraped ==
    (Observed /\ scrapeRes = Some([json |-> None, markdown |-> None, html |-> None]))
        => /\ outcome = "rejected" /\ error = CollectionError
           /\ PhasesOf(events) = <<"parsing", "parsed", "scraping">>
           /\ streamReqs = 0 /\ singleReqs = 0

\* C13 witness: an observed atsStream call whose scrape got the null response.
C13_Witness ==
    /\ Observed /\ outcome = "rejected" /\ scrapeCalls = 1
    /\ scrapeRes = Some([json |-> None, markdown |-> None, html |-> None])

\* C14: every Job a successful collection produces has all fields defined:
\* title and company are non-empty strings, the placeholders when the json has
\* none; text and url are strings; the six list fields are sequences, empty
\* when the json has no qualifications or responsibilities.
C14_JobFieldsDefined ==
    job # None =>
        LET j    == job[1]
            res  == scrapeRes[1]
            json == IF res.json = None THEN EmptyJson ELSE res.json[1]
        IN  /\ \A f \in DOMAIN j : j[f] # None
            /\ j.title # Some("") /\ j.company # Some("")
            /\ (json.jobTitle \in {None, Some("")} => j.title = Some("Unknown Position"))
            /\ (json.companyName \in {None, Some("")} => j.company = Some("Unknown Company"))
            /\ (json.qualifications = None =>
                   /\ j.requiredSkills = Some(<<>>)
                   /\ j.mustHaveRequirements = Some(<<>>)
                   /\ j.technologies = Some(<<>>))
            /\ (json.responsibilities = None => j.keyResponsibilities = Some(<<>>))
            /\ j.niceToHave = Some(<<>>) /\ j.keywords = Some(<<>>)

\* C14 witness: a Job built from a response without json: both placeholders,
\* the markdown as text and empty lists.
C14_Witness ==
    /\ scrapeRes = Some([json |-> None, markdown |-> Some("# Job"), html |-> None])
    /\ job # None
    /\ job[1].title = Some("Unknown Position")
    /\ job[1].company = Some("Unknown Company")
    /\ job[1].text = Some("# Job")
    /\ job[1].requiredSkills = Some(<<>>)

EventsOf(phase) == SelectSeq(events, LAMBDA ev : ev.phase = phase)

\* C18 (as claimed): `analyzing` is emitted only in structured mode, once,
\* after `scraped` and before the first `scoring` event, and never in
\* narrative mode.
C18_AnalyzingOnlyStructured ==
    /\ Mode = "narrative" => At("analyzing") = {}
    /\ Cardinality(At("analyzing")) <= 1
    /\ \A i \in At("analyzing") :
           /\ \E j \in At("scraped") : j < i
           /\ \A j \in At("scoring") : i < j
    /\ (Mode = "structured" /\ At("scoring") # {}) => At("analyzing") # {}

\* C18 (amended): `analyzing` is emitted only in narrative mode, once, right
\* after `scraped` and before every `reasoning`, `generating` and `complete`
\* event; it is never emitted in structured mode, where the payload-less
\* `scoring` event takes its place.
C18_AnalyzingOnlyNarrative ==
    /\ Mode = "structured" => At("analyzing") = {}
    /\ Cardinality(At("analyzing")) <= 1
    /\ \A i \in At("analyzing") :
           /\ i > 1 /\ events[i - 1].phase = "scraped"
           /\ \A j \in At("reasoning") \cup At("generating") \cup At("complete") : i < j
    /\ (Observed /\ Mode = "narrative" /\ At("scraped") # {}) => At("analyzing") # {}

\* C18 witness: a narrative run delivered `analyzing` and then answer text.
C18_Witness ==
    /\ Observed /\ Mode = "narrative"
    /\ At("analyzing") # {} /\ At("generating") # {} /\ At("complete") # {}

\* C19 (as claimed): in structured mode there are as many `scoring` events as
\* partials consumed, each carrying its partial; none is without a payload.
C19_ScoringPerPartial ==
    (Observed /\ Mode = "structured" /\ pc \in {"partials", "object", "fallback", "done"})
        => /\ EventsOf("scoring") =
                [i \in 1..accPos |-> [phase |-> "scoring", data |-> ScoreData(partials[i])]]
           /\ \A i \in At("scoring") : events[i].data # NoData

\* C19 (amended): in structured mode the `scoring` events are one payload-less
\* marker, delivered before the stream is read, followed by one event per
\* partial consumed, in order, each carrying that partial.
C19_MarkerThenScoringPerPartial ==
    (Observed /\ Mode = "structured" /\ pc \in {"partials", "object", "fallback", "done"}
              /\ job # None)
        => EventsOf("scoring") =
              <<[phase |-> "scoring", data |-> NoData]>> \o
              [i \in 1..accPos |-> [phase |-> "scoring", data |-> ScoreData(partials[i])]]

\* C19 witness: two partials were consumed and three `scoring` events delivered.
C19_Witness ==
    /\ Observed /\ Mode = "structured" /\ accPos = 2
    /\ Len(EventsOf("scoring")) = 3
    /\ outcome = "returned"

\* C20: `reasoning` and `generating` events are delivered only when the format
\* is markdown or unspecified, `scoring` events only when it is json or xml,
\* and no invocation delivers events of both families.
C20_FamiliesExclusive ==
    /\ (At("reasoning") \cup At("generating") # {}) => format \in {Absent, "markdown"}
    /\ At("scoring") # {} => format \in {"json", "xml"}
    /\ ~(At("reasoning") \cup At("generating") # {} /\ At("scoring") # {})

\* C20 witness: a call without a format option delivered a `generating` event.
C20_Witness ==
    /\ format = Absent /\ At("generating") # {} /\ At("scoring") = {}

\* C17: in narrative mode of atsStream with an observer, a call whose
\* forwarding task failed while the call was pending (the forwarded stream
\* raised, or onProgress threw on a `reasoning` or `generating` event) ends
\* rejected: it does not go on to deliver `complete` and return a string.
C17_ForwardingFailureRejects ==
    ~ /\ fwd = "failed"
      /\ outcome = "returned"
      /\ events[Len(events)].phase = "complete"

\* C15: for the same arguments and the same collaborator responses, atsStream
\* ends as ats did, returning the same string in every format, and ats has
\* delivered no progress event.
C15_SameResultAsAts ==
    (first # None /\ pc = "done")
        => /\ outcome = first[1].outcome
           /\ returned = first[1].returned
           /\ first[1].events = <<>>

\* C21: in structured mode the `complete` event carries the final Score, the
\* one whose rendering the call returns, also when it came from the single-shot
\* fallback; in narrative mode the `complete` event carries no data.
C21_CompleteCarriesFinalScore ==
    \A i \in At("complete") :
        IF Mode = "narrative"
        THEN events[i].data = NoData
        ELSE \E score \in Scores :
                /\ events[i].data = ScoreData(score)
                /\ score = (IF streamState = "closed" THEN streamObj ELSE singleObj)
                /\ outcome = "returned"
                /\ returned = render(score, formatType)

\* C21 witness: the stream failed, the single-shot request gave score 82 and
\* the `complete` event carries it.
C21_Witness ==
    /\ Observed /\ Mode = "structured" /\ streamState = "rejected"
    /\ singleObj = 82 /\ outcome = "returned"
    /\ events[Len(events)] = [phase |-> "complete", data |-> ScoreData(82)]

\* The events one per delta of the parts given, in their order: a `reasoning`
\* event for a reasoning delta, a `generating` event for an answer delta.
RECURSIVE DeltaEvents(_)
DeltaEvents(parts) ==
    IF parts = <<>> THEN <<>>
    ELSE LET part == Head(parts)
         IN  (IF part.type = "reasoning-delta"
              THEN <<[phase |-> "reasoning", data |-> TextData(part.text)]>>
              ELSE IF part.type = "text-delta"
              THEN <<[phase |-> "generating", data |-> TextData(part.text)]>>
              ELSE <<>>) \o DeltaEvents(Tail(parts))

RequestsOf(fn) == SelectSeq(requests, LAMBDA r : r.fn = fn)

\* C23: the fallback request carries the same prompt, model and verbosity as
\* the streaming request that failed, whatever config the caller supplied.
C23_FallbackSamePromptAndConfig ==
    \A i \in 1..Len(requests) :
        requests[i].fn = "generateObject" =>
            /\ i > 1
            /\ requests[i - 1].fn = "streamObject"
            /\ requests[i].prompt = requests[i - 1].prompt
            /\ requests[i].model = requests[i - 1].model
            /\ requests[i].textVerbosity = requests[i - 1].textVerbosity

\* C23 witness: a caller with its own model and verbosity got its result from
\* the fallback request.
C23_Witness ==
    /\ cfgModel = "gpt-5" /\ cfgVerbosity = "high"
    /\ Len(RequestsOf("generateObject")) = 1
    /\ requests[2].model = "gpt-5" /\ requests[2].textVerbosity = "high"
    /\ outcome = "returned"

C25_MaxAgePassedThrough ==
    scrapeCalls > 0 =>
        scrapeMaxAge = (IF optMaxAge = None THEN Some(3600000) ELSE optMaxAge)

\* C25 witness: a call with maxAge 0 has called firecrawl.scrape with 0.
C25_Witness ==
    /\ optMaxAge = Some(0) /\ scrapeCalls = 1 /\ scrapeMaxAge = Some(0)

\* C28: every request carries the model and verbosity, and the narrative
\* request the reasoning setting, of the caller's config where it has the
\* field and of the defaults gpt-5-mini / low / none where it has not; no step
\* of the invocation changes the caller's config.
C28_ConfigMergedOverDefaults ==
    /\ [](\A i \in 1..Len(requests) :
            /\ requests[i].model =
                   (IF cfgModel = Absent THEN "gpt-5-mini" ELSE cfgModel)
            /\ requests[i].textVerbosity =
                   (IF cfgVerbosity = Absent THEN "low" ELSE cfgVerbosity)
            /\ requests[i].fn = "streamText" =>
                   requests[i].reasoningSummary =
                       (IF cfgReasoning \in {Absent, "none"} THEN "auto"
                        ELSE cfgReasoning))
    /\ [][/\ cfgModel' = cfgModel
          /\ cfgVerbosity' = cfgVerbosity
          /\ cfgReasoning' = cfgReasoning]_vars

\* C28 witness: a caller that gave a model but no verbosity: the fallback
\* request, the last of the invocation, has the caller's model and the default
\* verbosity.
C28_Witness ==
    /\ cfgModel = "gpt-5" /\ cfgVerbosity = Absent
    /\ Len(requests) = 2
    /\ requests[2].model = "gpt-5" /\ requests[2].textVerbosity = "low"

\* C26: a CLI run with --fresh calls firecrawl.scrape with cache age 0, a run
\* without it with the one-hour default.
C26_FreshSkipsCache ==
    (cli # None /\ scrapeCalls > 0)
        => scrapeMaxAge = (IF cli[1].fresh THEN Some(0) ELSE Some(3600000))

\* The source whose value a key must have by the priority
\* flag > environment > ./.env > ~/.jobheistrc.
Preferred(c, k) ==
    IF c.flags[k] # Absent THEN "flag"
    ELSE IF c.shell[k] # Absent THEN "shell"
    ELSE IF c.dotenv[k] # Absent THEN "dotenv"
    ELSE IF c.rc[k] # Absent THEN "rc"
    ELSE Absent

\* C27: when main() has resolved the keys, each key has the value of its
\* highest-priority source, CLI flag > environment variable already set >
\* ./.env > ~/.jobheistrc, and is unset only when no source has it; atsStream
\* is called only with both keys set.
C27_KeyPriority ==
    (cli # None /\ cli[1].pc \in {"called", "exit1"})
        => /\ \A k \in KeyNames : cli[1].env[k] = Preferred(cli[1], k)
           /\ cli[1].pc = "called" <=> \A k \in KeyNames : Preferred(cli[1], k) # Absent

\* C27 witness: the scraping key is in ./.env and ~/.jobheistrc only and the
\* AI key in all four sources; the call is made with the ./.env value and the
\* flag value.
C27_Witness ==
    /\ cli # None /\ cli[1].pc = "called" /\ scrapeCalls = 1
    /\ cli[1].flags["FIRECRAWL_API_KEY"] = Absent
    /\ cli[1].shell["FIRECRAWL_API_KEY"] = Absent
    /\ cli[1].rc["FIRECRAWL_API_KEY"] = "rc"
    /\ cli[1].env["FIRECRAWL_API_KEY"] = "dotenv"
    /\ cli[1].shell["OPENAI_API_KEY"] = "shell"
    /\ cli[1].rc["OPENAI_API_KEY"] = "rc"
    /\ cli[1].env["OPENAI_API_KEY"] = "flag"

\* The position of the line in the text (0 when it is not there).
LineAt(text, line) ==
    IF \E i \in 1..Len(text) : text[i] = line
    THEN CHOOSE i \in 1..Len(text) : text[i] = line
    ELSE 0

\* The lines of the text strictly between two of its lines, less the empty
\* line that closes them.
Between(text, from, to) == SubSeq(text, LineAt(text, from) + 1, LineAt(text, to) - 2)

\* C29: the markdown rendering ends with exactly one of the four verdicts:
\* excellent for score >= 80, good for 65..79, moderate for 50..64, limited
\* below 50, for every integer score of 0..100.
C29_VerdictByThreshold ==
    rendered # None /\ format = "markdown" =>
        LET text == rendered[1]
            n    == renderArg[1].score
            verdicts == {Excellent, Good, Moderate, Limited}
        IN  /\ Cardinality({i \in 1..Len(text) : text[i] \in verdicts}) = 1
            /\ text[Len(text)] =
                  (IF n \in 80..100 THEN Excellent
                   ELSE IF n \in 65..79 THEN Good
                   ELSE IF n \in 50..64 THEN Moderate
                   ELSE Limited)

\* C29 witness: score 80 was rendered with the excellent verdict.
C29_Witness ==
    /\ rendered # None /\ format = "markdown" /\ renderArg[1].score = 80
    /\ rendered[1][Len(rendered[1])] = Excellent

\* C30: each keyword subsection of the markdown rendering is its fallback
\* sentence exactly when its list is empty and otherwise the entries of its
\* keywords in list order; no subsection is empty.
C30_KeywordSections ==
    rendered # None /\ format = "markdown" =>
        LET text == rendered[1]
            ka   == renderArg[1].keywordAnalysis
            strong   == Between(text, StrongHeading, UnderHeading)
            under    == Between(text, UnderHeading, NotFoundHeading)
            notFound == Between(text, NotFoundHeading, OpportunitiesHeading)
            Keywords(lines) ==
                LET at == SelectSeq(lines, LAMBDA l : l # <<>> /\ l[1] = "**")
                IN  [i \in 1..Len(at) |-> at[i][2]]
            Asked(list) == [i \in 1..Len(list) |-> list[i].keyword]
        IN  /\ strong # <<>> /\ under # <<>> /\ notFound # <<>>
            /\ strong = << <<"No strong keyword matches identified">> >>
                  <=> ka.strongMatches = <<>>
            /\ under = << <<"All present keywords are well-represented">> >>
                  <=> ka.underRepresented = <<>>
            /\ notFound = << <<"No critical keywords missing">> >>
                  <=> ka.notFound = <<>>
            /\ Keywords(strong) = Asked(ka.strongMatches)
            /\ Keywords(under) = Asked(ka.underRepresented)
            /\ Keywords(notFound) = Asked(ka.notFound)

\* C30 witness: no strong match, and Figma then React not found.
C30_Witness ==
    /\ rendered # None /\ format = "markdown"
    /\ renderArg[1].keywordAnalysis.strongMatches = <<>>
    /\ renderArg[1].keywordAnalysis.notFound = <<NotFound("Figma"), NotFound("React")>>
    /\ Between(rendered[1], StrongHeading, UnderHeading)
          = << <<"No strong keyword matches identified">> >>
    /\ Len(Between(rendered[1], NotFoundHeading, OpportunitiesHeading)) = 5

\* C31: parsing the json rendering gives back the Score that was rendered,
\* and render leaves the Score it was given as it was.
C31_JsonRoundTrip ==
    /\ [](rendered # None /\ format = "json" =>
            JSONparse(rendered[1]) = ScoreObject(renderArg[1]))
    /\ [][renderArg # None => renderArg' = renderArg]_vars

\* C31 witness: a Score with an empty list, a suggestion without `current`
\* and score 0 was rendered as json.
C31_Witness ==
    /\ rendered # None /\ format = "json"
    /\ renderArg[1].score = 0
    /\ renderArg[1].optimizations = <<>>
    /\ renderArg[1].suggestions[1].current = None
    /\ rendered[1][1] = Token("punct", "{")

\* The names of the elements directly under the root element of an XML text.
ChildElements(xml) ==
    LET Count(kind, i) == Cardinality({j \in 1..(i - 1) : xml[j].kind = kind})
    IN  {xml[i].s : i \in {j \in 1..Len(xml) :
                              /\ xml[j].kind \in {"open", "empty"}
                              /\ Count("open", j) - Count("close", j) = 1}}

\* C32: the xml rendering has the root element `evaluation`, and under it an
\* element for every top-level field of the json rendering: score,
\* keywordAnalysis, suggestions, analysis, optimizations.
C32_XmlKeepsTopLevelFields ==
    rendered # None /\ format = "xml" =>
        LET xml  == rendered[1]
            json == JSONparse(renderText(renderArg[1], "json"))
            fields == {json.v[i].k : i \in 1..Len(json.v)}
        IN  /\ xml[2] = Token("open", "evaluation")
            /\ xml[Len(xml)] = Token("close", "evaluation")
            /\ fields = {"score", "keywordAnalysis", "suggestions", "analysis",
                         "optimizations"}
            /\ fields \subseteq ChildElements(xml)

\* C32 witness: a Score without optimizations was rendered as xml, and the
\* field is there as an empty element.
C32_Witness ==
    /\ rendered # None /\ format = "xml"
    /\ renderArg[1].optimizations = <<>>
    /\ rendered[1][Len(rendered[1]) - 1] = Token("empty", "optimizations")

\* C33: parse returns a Resume for every document it could read; without an
\* e-mail address in the text `email` is absent, without a phone number
\* `phone` is absent, and `name` is the first line that is not blank, trimmed,
\* or absent when every line is blank.
C33_MissingFieldsAreAbsent ==
    ingested # None /\ pdf[1].readable =>
        LET r == ingested[1].value[1]
            White == {Space, LineBreak}
            Has(runs) == \E i \in 1..Len(r.text) : r.text[i] \in runs
            \* the lines of the text, by the positions of its line breaks
            breaks == {i \in 1..Len(r.text) : r.text[i] = LineBreak}
            LineFrom(i) ==
                SubSeq(r.text, i,
                       IF \E b \in breaks : b >= i
                       THEN (CHOOSE b \in breaks :
                                b >= i /\ \A c \in breaks : c >= i => b <= c) - 1
                       ELSE Len(r.text))
            starts == {1} \cup {b + 1 : b \in breaks}
            NonBlank(line) == \E i \in 1..Len(line) : line[i] \notin White
            named == {i \in starts : NonBlank(LineFrom(i))}
            firstLine == LineFrom(CHOOSE i \in named : \A j \in named : i <= j)
            a == CHOOSE i \in 1..Len(firstLine) :
                    /\ firstLine[i] \notin White
                    /\ \A j \in 1..(i - 1) : firstLine[j] \in White
            b == CHOOSE i \in 1..Len(firstLine) :
                    /\ firstLine[i] \notin White
                    /\ \A j \in (i + 1)..Len(firstLine) : firstLine[j] \in White
        IN  /\ ingested[1].returned
            /\ ~Has(EmailRuns) => r.email = None
            /\ ~Has(PhoneRuns) => r.phone = None
            /\ Has(EmailRuns) => r.email \in {Some(run) : run \in EmailRuns}
            /\ named = {} => r.name = None
            /\ named # {} => r.name = Some(SubSeq(firstLine, a, b))

\* C33 witness: a document with a padded name on its second page and neither
\* address nor number gave a Resume with the trimmed name only.
C33_Witness ==
    /\ ingested # None /\ pdf[1].readable
    /\ pdf[1].pages = << <<<<Space>>>>, <<<<Space, "Ada", Space>>, <<>>>> >>
    /\ ingested[1].returned
    /\ ingested[1].value[1].name = Some(<<"Ada">>)
    /\ ingested[1].value[1].email = None
    /\ ingested[1].value[1].phone = None

\* C34: in narrative mode with an observer one iteration hands each delta to
\* both the observer and the accumulator, so the two have always taken the
\* same number of deltas from the stream.
C34_SingleIteration ==
    (api = "atsStream" /\ format = "markdown" /\ hasObserver /\ openaiKey /\ ~aborted)
        => fwdPos = accPos

\* C35: the collection collaborator is called only after the resume was
\* ingested (after `parsed`), and a call whose ingestion fails rejects having
\* emitted `parsing` alone and having called neither the collection nor the
\* AI collaborator.
C35_ResumeBeforeJob ==
    /\ scrapeCalls > 0 =>
          /\ fileReads > 0
          /\ error # IngestError
          /\ (api = "atsStream" /\ hasObserver) =>
                \E i \in 1..Len(events) : events[i].phase = "parsed"
    /\ error = IngestError =>
          /\ outcome = "rejected"
          /\ events = Emit(<<>>, "parsing", NoData)
          /\ scrapeCalls = 0 /\ streamReqs = 0 /\ singleReqs = 0

\* C35 witness: an observed atsStream call rejected by ingestion, with
\* `parsing` delivered and no collaborator called.
C35_Witness ==
    /\ api = "atsStream" /\ hasObserver
    /\ error = IngestError /\ outcome = "rejected"
    /\ Len(events) = 1 /\ events[1].phase = "parsing"
    /\ scrapeCalls = 0

\* C36: of two atsStream calls with the same arguments and collaborator
\* behaviour, one without and one with an observer, when the first returned
\* the second returns the same string, and the requests to the collection and
\* AI collaborators are the same.
C36_ObserverChangesNothing ==
    (first # None /\ pc = "done" /\ first[1].outcome = "returned")
        => /\ outcome = "returned"
           /\ returned = first[1].returned
           /\ requests = first[1].requests
           /\ scrapeKey = first[1].scrapeKey
           /\ scrapeMaxAge = first[1].scrapeMaxAge
           /\ first[1].events = <<>>

\* C36 witness: the second, observed call has returned what the first did,
\* its observer having been told of it.
C36_Witness ==
    /\ first # None /\ pc = "done" /\ first[1].outcome = "returned"
    /\ outcome = "returned" /\ returned = first[1].returned
    /\ hasObserver /\ Len(events) > 0 /\ events[Len(events)].phase = "complete"

\* The exit status of a CLI process that has ended.
ExitStatus(c) == IF c.pc = "exit1" THEN 1 ELSE 0

\* C37: without both positional arguments, or with FIRECRAWL_API_KEY or
\* OPENAI_API_KEY unset once the flags are applied, the CLI exits with status
\* 1 and atsStream is never called: no file is read and no collaborator is
\* called.
C37_ExitsBeforeCalling ==
    (cli # None /\ cli[1].pc \notin {"import", "rc", "main"})
        => LET c == cli[1]
               Unset(k) == /\ c.flags[k] = Absent /\ c.shell[k] = Absent
                           /\ c.dotenv[k] = Absent /\ c.rc[k] = Absent
           IN  (~c.positional \/ Unset("FIRECRAWL_API_KEY") \/ Unset("OPENAI_API_KEY"))
                   => /\ c.pc \in {"usage", "exit1"}
                      /\ ExitStatus(c) = 1
                      /\ pc = "start" /\ events = <<>>
                      /\ fileReads = 0 /\ scrapeCalls = 0
                      /\ streamReqs = 0 /\ singleReqs = 0

\* C38: a CLI run that succeeded has written the result to stdout once: for
\* json and xml console.log wrote the returned string after the call and no
\* delta went to stdout; for markdown nothing was written after the call, and
\* the deltas written to stdout are a prefix of the returned string and, once
\* the forwarding has ended, the returned string itself (reasoning = 'none').
C38_ResultWrittenOnce ==
    (cli # None /\ cli[1].pc = "exit0")
        => LET out == Tracker(events).stdout
           IN  IF cli[1].format = "markdown"
               THEN /\ cli[1].logged = None
                    /\ IsPrefix(out, returned)
                    /\ (fwd = "done" => out = returned)
               ELSE /\ cli[1].logged = Some(returned)
                    /\ out = <<>>

\* C38 witness: a markdown run has ended with two deltas on stdout, which are
\* the returned string, and nothing written after the call.
C38_Witness ==
    /\ cli # None /\ cli[1].pc = "exit0" /\ cli[1].format = "markdown"
    /\ fwd = "done" /\ Len(returned) = 2
    /\ Tracker(events).stdout = returned
    /\ cli[1].logged = None

\* C39: the tracker's completed set is ordered (analyzed only with scraped,
\* scraped only with parsed); parsed and scraped, once in it, stay; analyzed
\* leaves it only in a step that delivers an `analyzing` event.
C39_CompletedOrdered ==
    /\ [](LET c == Tracker(events).completed
          IN  /\ "analyzed" \in c => "scraped" \in c
              /\ "scraped" \in c => "parsed" \in c)
    /\ [][LET c  == Tracker(events).completed
              c2 == Tracker(events').completed
          IN  /\ (c \cap {"parsed", "scraped"}) \subseteq c2
              /\ ("analyzed" \in c /\ "analyzed" \notin c2)
                    => \E i \in (Len(events) + 1)..Len(events') :
                          events'[i].phase = "analyzing"]_vars

\* C39 witness: all three phases are in the set, in a structured run, after
\* a partial with a score.
C39_Witness ==
    /\ cli # None /\ cli[1].pc = "called" /\ cli[1].format = "json"
    /\ Tracker(events).completed = {"parsed", "scraped", "analyzed"}
    /\ Tracker(events).score = 82

\* C40: whenever the timer fires, the spinner writes a status line only if
\* the last event delivered was a phase event without text other than
\* `complete`: not before the first event, not once a reasoning or generating
\* delta has been written, and not after `complete`.
C40_SpinnerOnlyInPhase ==
    [][(cli # None /\ cli'[1].frame # cli[1].frame /\ cli'[1].spun # None)
          => /\ events # <<>>
             /\ events[Len(events)].data.kind # "text"
             /\ events[Len(events)].phase # "complete"]_vars

\* C40 witness: text is being streamed, and the timer has just fired without
\* the spinner writing anything.
C40_Witness ==
    /\ cli # None /\ cli[1].pc = "called"
    /\ events # <<>> /\ events[Len(events)].phase = "generating"
    /\ Tracker(events).isStreaming
    /\ cli[1].frame = 1 /\ cli[1].spun = None

====
